---- MODULE Spec2Model ----
(***************************************************************************)
(* Kuntatinte colour core: RGB/HSL conversion (core/color_utils.py), the   *)
(* ANSI palette pipeline (core/imagemagick.py) and the tonal scheme        *)
(* generator (integrations/kuntatinte_colors.py).                          *)
(*                                                                         *)
(* Numbers.  Python computes in binary floating point; the model computes  *)
(* the same quantities exactly, in fixed point:                            *)
(*   hue         in 1/100 degree  (the unit of round(h, 2)),               *)
(*   saturation  in 1/100 percent as returned by rgb_to_hsl, and in        *)
(*               1/10000 percent ("S4") where the code multiplies it by    *)
(*               a two-decimal factor before hsl_to_hex,                   *)
(*   lightness   in 1/100 percent as returned by rgb_to_hsl, and in        *)
(*               1/1000 percent ("L3") as an argument of hsl_to_hex.       *)
(* round() is round-half-to-even, as in Python 3.  All intermediate        *)
(* products are split so that they stay below 2^31.  Where the exact value *)
(* is a tie the double arithmetic of Python can fall on either side; the   *)
(* inputs below (channel levels, sample pools, seeds) are free of such     *)
(* ties: on them the operators yield the colours the Python code yields.   *)
(***************************************************************************)
EXTENDS Integers, Sequences, FiniteSets, TLC

VARIABLES
    c_pc, c_in, c_hsl, c_out,     \* conversion round trip: stage, input, HSL, output
    dominant,                     \* the samples the quantizer yields for the image
    mtime,                        \* the image's modification time, in ticks
    light,                        \* the mode of the last extraction call
    cache,                        \* cache key -> cache file content
    outcome,                      \* "idle", "returned" or "raised" (last call)
    strategy,                     \* the strategy of the last call, "cached" on a hit
    synth,                        \* the generated palette as handed to normalization
    result,                       \* the palette the last call returned
    g_pc,                         \* scheme generator: "seed", "tonal", "neutral", "raised"
    g_seed,                       \* the seed colour
    g_tones,                      \* the tonal scale built last (tone -> colour)
    g_raised,                     \* the exception construction raised, or "none"
    g_light_scheme,               \* _light_scheme of the constructed generator
    g_dark_scheme,                \* _dark_scheme of the constructed generator
    v_pc,                         \* variant engine: "off", "input" or the function called last
    v_colors,                     \* the palette handed to the variant engine
    v_args,                       \* the other arguments of the last call
    v_out,                        \* what the last call returned
    caller_pc,                    \* concurrent callers of the pipeline: where each one is
    caller_palette,               \* the palette each caller holds (cached or generated)
    hsl_cache,                    \* _hsl_cache, the memo table of get_color_hsl
    thread_pc,                    \* threads calling get_color_hsl: where each one is
    thread_color,                 \* hex_color of each thread's call
    thread_hsl,                   \* what each thread's call returned
    p_pc,                         \* hex string parsers: "off", "input" or the function called last
    p_text,                       \* the string handed to the parser
    p_out,                        \* what the parser returned, or the exception it raised
    b_pc,                         \* backend: where the worker of each extractColors request is
    b_image,                      \* image_path of each request
    b_method,                     \* method of each request
    b_signals,                    \* the result signals emitted for each request, in order
    extract_in_progress           \* PaletteBackend._extract_in_progress

conv_vars == <<c_pc, c_in, c_hsl, c_out>>

pipeline_vars == <<dominant, mtime, light, cache, outcome, strategy, synth, result>>

scheme_vars == <<g_pc, g_seed, g_tones, g_raised, g_light_scheme, g_dark_scheme>>

variant_vars == <<v_pc, v_colors, v_args, v_out>>

caller_vars == <<caller_pc, caller_palette>>

memo_vars == <<hsl_cache, thread_pc, thread_color, thread_hsl>>

parser_vars == <<p_pc, p_text, p_out>>

backend_vars == <<b_pc, b_image, b_method, b_signals, extract_in_progress>>

\* the state outside the conversion round trip, the palette pipeline, the
\* scheme generator, the variant engine, the concurrent callers and the
\* memo table
outside_conv == <<pipeline_vars, scheme_vars, variant_vars, caller_vars, memo_vars,
        parser_vars, backend_vars>>

outside_pipeline == <<conv_vars, scheme_vars, variant_vars, caller_vars, memo_vars,
        parser_vars, backend_vars>>

outside_scheme == <<conv_vars, pipeline_vars, variant_vars, caller_vars, memo_vars,
        parser_vars, backend_vars>>

outside_variant == <<conv_vars, pipeline_vars, scheme_vars, caller_vars, memo_vars,
        parser_vars, backend_vars>>

\* concurrent callers share the image and the cache files of the pipeline
outside_callers == <<conv_vars, scheme_vars, variant_vars, memo_vars,
                     parser_vars, backend_vars,
                     outcome, strategy, synth, result>>

outside_memo == <<conv_vars, pipeline_vars, scheme_vars, variant_vars, caller_vars,
                  parser_vars, backend_vars>>

outside_parser == <<conv_vars, pipeline_vars, scheme_vars, variant_vars, caller_vars,
                    memo_vars, backend_vars>>

outside_backend == <<conv_vars, pipeline_vars, scheme_vars, variant_vars, caller_vars,
                     memo_vars, parser_vars>>

vars == <<c_pc, c_in, c_hsl, c_out,
          dominant, mtime, light, cache, outcome, strategy, synth, result,
          g_pc, g_seed, g_tones, g_raised, g_light_scheme, g_dark_scheme,
          v_pc, v_colors, v_args, v_out,
          caller_pc, caller_palette,
          hsl_cache, thread_pc, thread_color, thread_hsl,
          p_pc, p_text, p_out,
          b_pc, b_image, b_method, b_signals, extract_in_progress>>

----------------------------------------------------------------------------
(* Arithmetic helpers *)

Abs(x) == IF x < 0 THEN -x ELSE x

Max2(a, b) == IF a >= b THEN a ELSE b

Min2(a, b) == IF a <= b THEN a ELSE b

Max3(a, b, c) == Max2(a, Max2(b, c))

Min3(a, b, c) == Min2(a, Min2(b, c))

Clamp(lo, hi, x) == Max2(lo, Min2(hi, x))

\* round(n / d) for n >= 0, d > 0, ties to even (Python's round)
RoundDiv(n, d) ==
    LET q == n \div d
        r == n % d
    IN  IF 2 * r > d \/ (2 * r = d /\ q % 2 = 1) THEN q + 1 ELSE q

----------------------------------------------------------------------------
(* core/color_utils.py: rgb_to_hsl, hsl_to_rgb, hsl_to_hex *)

\* A colour is <<r, g, b>>, each channel 0..255 (a '#rrggbb' string).
RGBColor(r, g, b) == <<r, g, b>>

\* rgb_to_hsl(r, g, b): h in 1/100 degree, s and l in 1/100 percent
RgbToHsl(c) ==
    LET hsl(r, g, b, mx, mn) ==
            LET diff == mx - mn
                l == RoundDiv(10000 * (mx + mn), 510)
            IN  IF diff = 0 THEN [h |-> 0, s |-> 0, l |-> l]
                ELSE LET s == RoundDiv(10000 * diff, 255 - Abs(mx + mn - 255))
                         num == IF mx = r THEN (g - b) % (6 * diff)
                                ELSE IF mx = g THEN (b - r) + 2 * diff
                                ELSE (r - g) + 4 * diff
                     IN  [h |-> RoundDiv(6000 * num, diff), s |-> s, l |-> l]
    IN  hsl(c[1], c[2], c[3], Max3(c[1], c[2], c[3]), Min3(c[1], c[2], c[3]))

\* max(0, min(255, int(round((r1 + m) * 255)))) for one channel, where
\*   l_ = L3 / 10^5, c = (a / 10^5) * (S4 / 10^6), r1 + m = l_ + c * G / 6000
\* (G = 3000 for r1 = c, G = F - 3000 for r1 = x, G = -3000 for r1 = 0).
\* The value is 17 * (L3 * 6 * 10^9 + a * S4 * G) / (4 * 10^13), kept in two
\* limbs of base 10^7.
ChannelValue(L3, a, S4, G) ==
    LET \* round half to even of (U * 10^7 + w) / (4 * 10^13), then the clamp
        rounded(q, rem, w) ==
            Clamp(0, 255,
                  IF rem > 2000000 \/ (rem = 2000000 /\ w > 0) THEN q + 1
                  ELSE IF rem = 2000000 THEN q + (q % 2)
                  ELSE q)
        scaled(U, w) == rounded(U \div 4000000, U % 4000000, w)
        \* 17 * (L3 * 6 * 10^9 + a * S4 * G), a * S4 * G = Hi * 10^7 + Lo
        limbs(Hi, Lo) ==
            scaled(17 * (L3 * 600 + Hi) + ((17 * Lo) \div 10000000),
                   (17 * Lo) % 10000000)
        carried(hi0, lo0) == limbs(hi0 + (lo0 \div 10000000), lo0 % 10000000)
        summed(X7, X4, X3, X0) ==
            carried(X7 + (X4 \div 1000) + (X3 \div 10000),
                    (X4 % 1000) * 10000 + (X3 % 10000) * 1000 + X0)
        \* a * G = ph * 10^4 + pl, S4 = sh * 10^3 + sl
        product(ph, pl, sh, sl) == summed(ph * sh, ph * sl, pl * sh, pl * sl)
    IN  product((a * G) \div 10000, (a * G) % 10000, S4 \div 1000, S4 % 1000)

\* hsl_to_rgb taking the sector from the hue without the 60-degree offset
HslToRgbWrongSector(H, S4, L3) ==
    LET a  == 100000 - Abs(2 * L3 - 100000)
        F  == 6000 - Abs((H % 12000) - 6000)
        channels(vc, vx, v0) ==
            IF 0 <= H /\ H < 12000 THEN <<vc, vx, v0>>
            ELSE IF H < 18000 THEN <<v0, vc, vx>>
            ELSE IF H < 24000 THEN <<v0, vx, vc>>
            ELSE IF H < 30000 THEN <<vx, v0, vc>>
            ELSE <<vc, v0, vx>>
    IN  channels(ChannelValue(L3, a, S4, 3000),
                 ChannelValue(L3, a, S4, F - 3000),
                 ChannelValue(L3, a, S4, -3000))

\* hsl_to_rgb(h, s, l) with h = H / 100, s = S4 / 10^4, l = L3 / 10^3
HslToRgb(H, S4, L3) ==
    LET a  == 100000 - Abs(2 * L3 - 100000)
        F  == 6000 - Abs((H % 12000) - 6000)
        channels(vc, vx, v0) ==
            IF 0 <= H /\ H < 6000 THEN <<vc, vx, v0>>
            ELSE IF 6000 <= H /\ H < 12000 THEN <<vx, vc, v0>>
            ELSE IF 12000 <= H /\ H < 18000 THEN <<v0, vc, vx>>
            ELSE IF 18000 <= H /\ H < 24000 THEN <<v0, vx, vc>>
            ELSE IF 24000 <= H /\ H < 30000 THEN <<vx, v0, vc>>
            ELSE <<vc, v0, vx>>
    IN  channels(ChannelValue(L3, a, S4, 3000),
                 ChannelValue(L3, a, S4, F - 3000),
                 ChannelValue(L3, a, S4, -3000))

\* hsl_to_hex(h, s, l): hue wrapped, saturation and lightness clamped
HslToHex(H, S4, L3) ==
    HslToRgb(H % 36000, Clamp(0, 1000000, S4), Clamp(0, 100000, L3))

\* hex_to_hsl / get_color_hsl: the HSL view of a stored colour
HexToHsl(c) == RgbToHsl(c)

----------------------------------------------------------------------------
(* core/imagemagick.py: constants (percent and degrees, as in the source) *)

ANSI_PALETTE_SIZE == 16

CACHE_VERSION == 3

MONOCHROME_SATURATION_THRESHOLD == 15

\* MONOCHROME_IMAGE_THRESHOLD = 0.7, in tenths
MONOCHROME_IMAGE_THRESHOLD_TENTHS == 7

\* LOW_DIVERSITY_THRESHOLD = 0.6, in tenths
LOW_DIVERSITY_THRESHOLD_TENTHS == 6

SIMILAR_HUE_RANGE == 30

SIMILAR_LIGHTNESS_RANGE == 20

MIN_CHROMATIC_SATURATION == 15

TOO_DARK_THRESHOLD == 20

TOO_BRIGHT_THRESHOLD == 85

VERY_DARK_BACKGROUND_THRESHOLD == 20

VERY_LIGHT_BACKGROUND_THRESHOLD == 80

MIN_BACKGROUND_LIGHTNESS_DARK == 8

MAX_BACKGROUND_LIGHTNESS_LIGHT == 92

MIN_LIGHTNESS_ON_DARK_BG == 55

MAX_LIGHTNESS_ON_LIGHT_BG == 45

MIN_FOREGROUND_CONTRAST == 40

ABSOLUTE_MIN_LIGHTNESS == 25

OUTLIER_LIGHTNESS_THRESHOLD == 25

BRIGHT_THEME_THRESHOLD == 50

DARK_COLOR_THRESHOLD == 50

SUBTLE_PALETTE_SATURATION == 28

MONOCHROME_SATURATION == 5

BRIGHT_COLOR_LIGHTNESS_BOOST == 18

\* BRIGHT_COLOR_SATURATION_BOOST = 1.25, in hundredths
BRIGHT_COLOR_SATURATION_BOOST_PCT == 125

\* the sample count test of extract_colors_with_imagemagick off by one
MinDominantColorsOffByOne == 8 - 1

\* the least number of dominant colours extract_colors_with_imagemagick accepts
MIN_DOMINANT_COLORS == 8

\* ANSI_HUE_ARRAY: red, green, yellow, blue, magenta, cyan (degrees)
ANSI_HUE_ARRAY == <<0, 120, 60, 240, 300, 180>>

\* a percentage or a degree count of the source in the unit of rgb_to_hsl
Hundredths(x) == 100 * x

\* None in a List[Optional[str]]
NoColor == <<>>

Black == <<0, 0, 0>>

----------------------------------------------------------------------------
(* core/imagemagick.py: HSL cache and colour analysis *)

\* get_color_hsl: the memoised hex_to_hsl
GetColorHsl(c) == HexToHsl(c)

\* calculate_hue_distance (core/color_utils.py)
CalculateHueDistance(h1, h2) ==
    LET diff == Abs(h1 - h2)
    IN  IF diff > Hundredths(180) THEN Hundredths(360) - diff ELSE diff

\* is_dark_color(hex, threshold) (core/color_utils.py)
IsDarkColor(c, threshold) == HexToHsl(c).l < Hundredths(threshold)

RECURSIVE CountLowSat(_, _)
\* the sum in is_monochrome_image, from position i on
CountLowSat(colors, i) ==
    IF i > Len(colors) THEN 0
    ELSE (IF GetColorHsl(colors[i]).s < Hundredths(MONOCHROME_SATURATION_THRESHOLD)
          THEN 1 ELSE 0) + CountLowSat(colors, i + 1)

\* is_monochrome_image with the comparison weakened to >=
IsMonochromeImageAtLeast(colors) ==
    10 * CountLowSat(colors, 1) >= MONOCHROME_IMAGE_THRESHOLD_TENTHS * Len(colors)

\* is_monochrome_image: (low_sat / len(colors)) > 0.7
IsMonochromeImage(colors) ==
    10 * CountLowSat(colors, 1) > MONOCHROME_IMAGE_THRESHOLD_TENTHS * Len(colors)

\* the double loop of has_low_color_diversity over the pairs i < j:
\* [similar, total], the counts the loop ends with.  A pair with a colour
\* below the saturation threshold is skipped; every other pair counts for
\* total, and for similar if hue and lightness are both close.
DiversityScan(hsl_colors) ==
    LET n == Len(hsl_colors)
        counted == {pair \in (1 .. n) \X (1 .. n) :
                       /\ pair[1] < pair[2]
                       /\ hsl_colors[pair[1]].s >= Hundredths(MONOCHROME_SATURATION_THRESHOLD)
                       /\ hsl_colors[pair[2]].s >= Hundredths(MONOCHROME_SATURATION_THRESHOLD)}
        hue_diff(pair) == CalculateHueDistance(hsl_colors[pair[1]].h, hsl_colors[pair[2]].h)
        light_diff(pair) == Abs(hsl_colors[pair[1]].l - hsl_colors[pair[2]].l)
    IN  [similar |-> Cardinality({pair \in counted :
                                     /\ hue_diff(pair) < Hundredths(SIMILAR_HUE_RANGE)
                                     /\ light_diff(pair) < Hundredths(SIMILAR_LIGHTNESS_RANGE)}),
         total |-> Cardinality(counted)]

RECURSIVE HslList(_, _)
\* [get_color_hsl(c) for c in colors], from position i on
HslList(colors, i) ==
    IF i > Len(colors) THEN <<>>
    ELSE <<GetColorHsl(colors[i])>> \o HslList(colors, i + 1)

\* has_low_color_diversity: False without chromatic pairs, else similar/total > 0.6
HasLowColorDiversity(colors) ==
    LET ratio(acc) == IF acc.total = 0 THEN FALSE
                      ELSE 10 * acc.similar > LOW_DIVERSITY_THRESHOLD_TENTHS * acc.total
    IN  ratio(DiversityScan(HslList(colors, 1)))

----------------------------------------------------------------------------
(* core/imagemagick.py: background and foreground selection *)

\* the first loop of find_background_color: the position bg_index ends
\* with, 0 standing for the source's -1.  The loop replaces its choice only
\* by a strictly better colour within the bound, so it ends with the first
\* of the best colours within the bound.
BackgroundScan(colors, light_mode) ==
    LET l(i) == GetColorHsl(colors[i]).l
        within == {i \in 1 .. Len(colors) :
                      IF light_mode
                      THEN l(i) > -100 /\ l(i) <= Hundredths(MAX_BACKGROUND_LIGHTNESS_LIGHT)
                      ELSE l(i) < 10100 /\ l(i) >= Hundredths(MIN_BACKGROUND_LIGHTNESS_DARK)}
        better(i, j) == IF light_mode THEN l(i) > l(j) ELSE l(i) < l(j)
    IN  IF within = {} THEN 0
        ELSE CHOOSE i \in within :
                 \A j \in within : ~better(j, i) /\ (j < i => better(i, j))

\* the fallback loop of find_background_color: the position closest ends
\* with, the first of the colours nearest to the target
ClosestScan(colors, target) ==
    LET d(i) == Abs(GetColorHsl(colors[i]).l - target)
    IN  CHOOSE i \in 1 .. Len(colors) :
            \A j \in 1 .. Len(colors) : d(j) >= d(i) /\ (j < i => d(j) > d(i))

\* find_background_color: [color, index]; index is a position 1..Len(colors),
\* 0 standing for the source's -1
FindBackgroundColor(colors, light_mode) ==
    LET target == IF light_mode THEN Hundredths(MAX_BACKGROUND_LIGHTNESS_LIGHT)
                  ELSE Hundredths(MIN_BACKGROUND_LIGHTNESS_DARK)
        clamped(bg_index, selected, selected_hsl) ==
            IF ~light_mode /\ selected_hsl.l < Hundredths(MIN_BACKGROUND_LIGHTNESS_DARK)
            THEN [color |-> HslToHex(selected_hsl.h, 100 * selected_hsl.s,
                                     1000 * MIN_BACKGROUND_LIGHTNESS_DARK),
                  index |-> bg_index]
            ELSE IF light_mode /\ selected_hsl.l > Hundredths(MAX_BACKGROUND_LIGHTNESS_LIGHT)
            THEN [color |-> HslToHex(selected_hsl.h, 100 * selected_hsl.s,
                                     1000 * MAX_BACKGROUND_LIGHTNESS_LIGHT),
                  index |-> bg_index]
            ELSE [color |-> selected, index |-> bg_index]
        selection(bg_index) ==
            clamped(bg_index, colors[bg_index], GetColorHsl(colors[bg_index]))
        fallback(bg_index) ==
            selection(IF bg_index # 0 THEN bg_index
                      ELSE ClosestScan(colors, target))
    IN  fallback(BackgroundScan(colors, light_mode))

\* the loop of find_foreground_color: the position fg_index ends with, 0
\* standing for the source's -1; the first of the lightest (in light mode
\* the darkest) colours at an unused position
ForegroundScan(colors, light_mode, used_indices) ==
    LET l(i) == GetColorHsl(colors[i]).l
        unused == {i \in 1 .. Len(colors) :
                      /\ i \notin used_indices
                      /\ IF light_mode THEN l(i) < 10100 ELSE l(i) > -100}
        better(i, j) == IF light_mode THEN l(i) < l(j) ELSE l(i) > l(j)
    IN  IF unused = {} THEN 0
        ELSE CHOOSE i \in unused :
                 \A j \in unused : ~better(j, i) /\ (j < i => better(i, j))

\* find_foreground_color: [color, index]; bg_lightness in 1/100 percent
FindForegroundColor(colors, light_mode, used_indices, bg_lightness) ==
    LET target == IF light_mode
                  THEN Max2(0, bg_lightness - Hundredths(MIN_FOREGROUND_CONTRAST))
                  ELSE Min2(Hundredths(100), bg_lightness + Hundredths(MIN_FOREGROUND_CONTRAST))
        contrasted(index, selected, selected_hsl) ==
            IF Abs(selected_hsl.l - bg_lightness) < Hundredths(MIN_FOREGROUND_CONTRAST)
            THEN [color |-> HslToHex(selected_hsl.h, 100 * selected_hsl.s, 10 * target),
                  index |-> index]
            ELSE [color |-> selected, index |-> index]
        selection(fg_index) ==
            IF fg_index = 0
            THEN [color |-> HslToHex(0, 0, 10 * target), index |-> 1]
            ELSE contrasted(fg_index, colors[fg_index], GetColorHsl(colors[fg_index]))
    IN  selection(ForegroundScan(colors, light_mode, used_indices))

----------------------------------------------------------------------------
(* core/imagemagick.py: colour matching and adjustment *)

\* calculate_color_score with the hue distance counted once instead of
\* three times
CalculateColorScoreUnweighted(hsl, target_hue) ==
    LET hue_diff == CalculateHueDistance(hsl.h, Hundredths(target_hue))
        saturation_penalty == IF hsl.s < Hundredths(MIN_CHROMATIC_SATURATION)
                              THEN Hundredths(50) ELSE 0
        lightness_penalty == IF \/ hsl.l < Hundredths(TOO_DARK_THRESHOLD)
                                \/ hsl.l > Hundredths(TOO_BRIGHT_THRESHOLD)
                             THEN Hundredths(10) ELSE 0
    IN  hue_diff + saturation_penalty + lightness_penalty

\* calculate_color_score, in 1/100 (lower is better)
CalculateColorScore(hsl, target_hue) ==
    LET hue_diff == CalculateHueDistance(hsl.h, Hundredths(target_hue)) * 3
        saturation_penalty == IF hsl.s < Hundredths(MIN_CHROMATIC_SATURATION)
                              THEN Hundredths(50) ELSE 0
        lightness_penalty == IF \/ hsl.l < Hundredths(TOO_DARK_THRESHOLD)
                                \/ hsl.l > Hundredths(TOO_BRIGHT_THRESHOLD)
                             THEN Hundredths(10) ELSE 0
    IN  hue_diff + saturation_penalty + lightness_penalty

\* the loop of find_best_color_match: the position best_index ends with, 0
\* standing for the source's -1; the first of the unused positions of the
\* lowest score
MatchScan(target_hue, color_pool, used_indices) ==
    LET score(i) == CalculateColorScore(GetColorHsl(color_pool[i]), target_hue)
        unused == (1 .. Len(color_pool)) \ used_indices
    IN  IF unused = {} THEN 0
        ELSE CHOOSE i \in unused :
                 \A j \in unused : score(j) >= score(i) /\ (j < i => score(j) > score(i))

\* find_best_color_match looking at the used positions as well
FindBestColorMatchAmongAll(target_hue, color_pool, used_indices) ==
    LET position(best_index) == IF best_index = 0 THEN 1 ELSE best_index
    IN  position(MatchScan(target_hue, color_pool, {}))

\* find_best_color_match: the position of the best unused colour; with every
\* position used the source returns 0, the first position
FindBestColorMatch(target_hue, color_pool, used_indices) ==
    LET position(best_index) == IF best_index = 0 THEN 1 ELSE best_index
    IN  position(MatchScan(target_hue, color_pool, used_indices))

\* generate_bright_version falling off its end without a return value
GenerateBrightVersionNoReturn(hex_color) == NoColor

\* generate_bright_version
GenerateBrightVersion(hex_color) ==
    LET brightened(hsl) ==
            HslToHex(hsl.h,
                     Min2(1000000, hsl.s * BRIGHT_COLOR_SATURATION_BOOST_PCT),
                     10 * Min2(Hundredths(100),
                               hsl.l + Hundredths(BRIGHT_COLOR_LIGHTNESS_BOOST)))
    IN  IF hex_color = NoColor THEN Black
        ELSE brightened(GetColorHsl(hex_color))

\* adjust_color_lightness(hex_color, target_lightness), target in 1/1000 percent
AdjustColorLightness(hex_color, target_l3) ==
    LET relit(hsl) == HslToHex(hsl.h, 100 * hsl.s, target_l3)
    IN  relit(GetColorHsl(hex_color))

RECURSIVE InsertByLightness(_, _)
\* one step of the stable sort: e goes after every entry not lighter than it
InsertByLightness(sorted, e) ==
    IF sorted = <<>> THEN <<e>>
    ELSE IF Head(sorted).lightness <= e.lightness
    THEN <<Head(sorted)>> \o InsertByLightness(Tail(sorted), e)
    ELSE <<e>> \o sorted

RECURSIVE SortScan(_, _, _)
SortScan(colors, i, sorted) ==
    LET entry(hsl) == [color |-> colors[i], lightness |-> hsl.l, hue |-> hsl.h]
    IN  IF i > Len(colors) THEN sorted
        ELSE SortScan(colors, i + 1,
                      InsertByLightness(sorted, entry(GetColorHsl(colors[i]))))

\* sort_colors_by_lightness: [color, lightness, hue] in ascending lightness (stable)
SortColorsByLightness(colors) == SortScan(colors, 1, <<>>)

----------------------------------------------------------------------------
(* core/imagemagick.py: palette generation.  A palette is a function on      *)
(* 0 .. ANSI_PALETTE_SIZE - 1; its entries are colours or NoColor.           *)

PaletteIndices == 0 .. ANSI_PALETTE_SIZE - 1

RECURSIVE ChromaticHues(_, _)
\* the hues of the colours of saturation > MONOCHROME_SATURATION_THRESHOLD
ChromaticHues(colors, i) ==
    LET chromatic(hsl) == IF hsl.s > Hundredths(MONOCHROME_SATURATION_THRESHOLD)
                          THEN <<hsl.h>> ELSE <<>>
    IN  IF i > Len(colors) THEN <<>>
        ELSE chromatic(GetColorHsl(colors[i])) \o ChromaticHues(colors, i + 1)

RECURSIVE SumSeq(_)
SumSeq(xs) == IF xs = <<>> THEN 0 ELSE Head(xs) + SumSeq(Tail(xs))

\* avg_hue of generate_subtle_balanced_palette, to the nearest 1/100 degree
AverageHue(dominant_colors, darkest) ==
    LET mean(hues) == IF hues # <<>> THEN RoundDiv(SumSeq(hues), Len(hues))
                      ELSE darkest.hue
    IN  mean(ChromaticHues(dominant_colors, 1))

\* generate_subtle_balanced_palette
GenerateSubtleBalancedPalette(dominant_colors, light_mode) ==
    LET \* 50 + (i - 2.5) * 4 for the i-th hue (i from 0), in 1/1000 percent
        base_l3(i) == 50000 + (2 * i - 5) * 2000
        bright_saturation == SUBTLE_PALETTE_SATURATION + 8
        adjustment == IF light_mode THEN -8000 ELSE 8000
        entries(darkest, lightest, avg_hue) ==
            [index \in PaletteIndices |->
                IF index = 0
                THEN (IF light_mode THEN lightest.color ELSE darkest.color)
                ELSE IF index <= 6
                THEN HslToHex(Hundredths(ANSI_HUE_ARRAY[index]),
                              10000 * SUBTLE_PALETTE_SATURATION, base_l3(index - 1))
                ELSE IF index = 7
                THEN (IF light_mode THEN darkest.color ELSE lightest.color)
                ELSE IF index = 8
                THEN HslToHex(avg_hue, 5000 * SUBTLE_PALETTE_SATURATION,
                              10 * (IF light_mode
                                    THEN Max2(0, lightest.lightness - Hundredths(15))
                                    ELSE Min2(Hundredths(100),
                                              darkest.lightness + Hundredths(15))))
                ELSE IF index <= 14
                THEN HslToHex(Hundredths(ANSI_HUE_ARRAY[index - 8]),
                              10000 * bright_saturation,
                              Clamp(0, 100000, base_l3(index - 9) + adjustment))
                ELSE IF light_mode
                THEN HslToHex(avg_hue, 3000 * SUBTLE_PALETTE_SATURATION,
                              10 * Max2(0, darkest.lightness - Hundredths(5)))
                ELSE HslToHex(avg_hue, 3000 * SUBTLE_PALETTE_SATURATION,
                              10 * Min2(Hundredths(100),
                                        lightest.lightness + Hundredths(5)))]
        ends(sorted_by_lightness) ==
            entries(sorted_by_lightness[1],
                    sorted_by_lightness[Len(sorted_by_lightness)],
                    AverageHue(dominant_colors, sorted_by_lightness[1]))
    IN  ends(SortColorsByLightness(dominant_colors))

\* MIN_STEP of generate_monochrome_palette
MIN_STEP == 3

\* MONOCHROME_COLOR8_SATURATION_FACTOR = 0.5, in tenths
MONOCHROME_COLOR8_SATURATION_FACTOR_TENTHS == 5

\* the saturation handed to hsl_to_hex for index 15 of the monochrome palette
MONOCHROME_COLOR15_SATURATION == 2

\* generate_monochrome_palette
GenerateMonochromePalette(gray_colors, light_mode) ==
    LET adjustment == IF light_mode THEN - Hundredths(10) ELSE Hundredths(10)
        \* startL + (i - 1) * (rng / 5.0), in 1/1000 percent
        lightness(startL, rng, i) == Clamp(0, 100000, 10 * startL + (i - 1) * 2 * rng)
        gray(base_hue, startL, rng, i) ==
            HslToHex(base_hue, 10000 * MONOCHROME_SATURATION, lightness(startL, rng, i))
        entries(darkest, lightest, startL, rng) ==
            [index \in PaletteIndices |->
                IF index = 0
                THEN (IF light_mode THEN lightest.color ELSE darkest.color)
                ELSE IF index <= 6
                THEN gray(darkest.hue, startL, rng, index)
                ELSE IF index = 7
                THEN (IF light_mode THEN darkest.color ELSE lightest.color)
                ELSE IF index = 8
                THEN HslToHex(darkest.hue,
                              1000 * MONOCHROME_SATURATION
                                   * MONOCHROME_COLOR8_SATURATION_FACTOR_TENTHS,
                              10 * (IF light_mode
                                    THEN Max2(0, darkest.lightness + Hundredths(5))
                                    ELSE Min2(Hundredths(100),
                                              lightest.lightness - Hundredths(25))))
                ELSE IF index <= 14
                THEN HslToHex(darkest.hue, 10000 * MONOCHROME_SATURATION,
                              10 * Clamp(0, Hundredths(100),
                                         GetColorHsl(gray(darkest.hue, startL, rng,
                                                          index - 8)).l + adjustment))
                ELSE IF light_mode
                THEN HslToHex(darkest.hue, 10000 * MONOCHROME_COLOR15_SATURATION,
                              10 * Max2(0, darkest.lightness - Hundredths(5)))
                ELSE HslToHex(darkest.hue, 10000 * MONOCHROME_COLOR15_SATURATION,
                              10 * Min2(Hundredths(100),
                                        lightest.lightness + Hundredths(5)))]
        ranged(darkest, lightest, startL, endL) ==
            entries(darkest, lightest, startL,
                    Max2(endL - startL, Hundredths(MIN_STEP * 5)))
        spread(darkest, lightest, startL0, endL0) ==
            IF endL0 <= startL0
            THEN ranged(darkest, lightest,
                        IF light_mode THEN Max2(0, darkest.lightness)
                        ELSE Max2(0, darkest.lightness + Hundredths(10)),
                        Min2(Hundredths(100), lightest.lightness))
            ELSE ranged(darkest, lightest, startL0, endL0)
        ends(darkest, lightest) ==
            spread(darkest, lightest,
                   IF light_mode THEN darkest.lightness + Hundredths(10)
                   ELSE Max2(darkest.lightness + Hundredths(30),
                             lightest.lightness - Hundredths(40)),
                   IF light_mode
                   THEN Min2(darkest.lightness + Hundredths(40),
                             lightest.lightness - Hundredths(10))
                   ELSE lightest.lightness - Hundredths(10))
        sorted(sorted_by_lightness) ==
            ends(sorted_by_lightness[1], sorted_by_lightness[Len(sorted_by_lightness)])
    IN  sorted(SortColorsByLightness(gray_colors))

RECURSIVE GreedyMatches(_, _, _)
\* the assignment loop of generate_chromatic_palette from hue i on: the
\* matched positions, each added to used before the next hue is served
GreedyMatches(dominant_colors, used, i) ==
    LET served(match_index) ==
            <<match_index>> \o
            GreedyMatches(dominant_colors, used \cup {match_index}, i + 1)
    IN  IF i > Len(ANSI_HUE_ARRAY) THEN <<>>
        ELSE served(FindBestColorMatch(ANSI_HUE_ARRAY[i], dominant_colors, used))

\* generate_chromatic_palette
GenerateChromaticPalette(dominant_colors, light_mode) ==
    LET entries(background, bg_hsl, foreground, matches) ==
            [index \in PaletteIndices |->
                IF index = 0 THEN background.color
                ELSE IF index <= 6 THEN dominant_colors[matches[index]]
                ELSE IF index = 7 THEN foreground.color
                ELSE IF index = 8
                THEN HslToHex(bg_hsl.h, 50 * bg_hsl.s,
                              10 * (IF IsDarkColor(background.color, DARK_COLOR_THRESHOLD)
                                    THEN Min2(Hundredths(100), bg_hsl.l + Hundredths(15))
                                    ELSE Max2(0, bg_hsl.l - Hundredths(15))))
                ELSE IF index <= 14
                THEN GenerateBrightVersion(dominant_colors[matches[index - 8]])
                ELSE GenerateBrightVersion(foreground.color)]
        matched(background, bg_hsl, foreground) ==
            entries(background, bg_hsl, foreground,
                    GreedyMatches(dominant_colors,
                                  {background.index, foreground.index}, 1))
        fronted(background, bg_hsl) ==
            matched(background, bg_hsl,
                    FindForegroundColor(dominant_colors, light_mode,
                                        {background.index}, bg_hsl.l))
        backed(background) == fronted(background, GetColorHsl(background.color))
    IN  backed(FindBackgroundColor(dominant_colors, light_mode))

----------------------------------------------------------------------------
(* core/imagemagick.py: brightness normalization.  color_info is             *)
(* [index, lightness, hue, saturation] as read before any adjustment.        *)

\* palette[index] = adjust_color_lightness(palette[index], adjusted) followed
\* by the refresh of the bright twin of indices 1..6
SetLightness(palette, index, adjusted_l3) ==
    LET stored(moved) ==
            IF 1 <= index /\ index <= 6
            THEN [palette EXCEPT ![index] = moved,
                                 ![index + 8] = GenerateBrightVersion(moved)]
            ELSE [palette EXCEPT ![index] = moved]
    IN  stored(AdjustColorLightness(IF palette[index] = NoColor THEN Black
                                    ELSE palette[index],
                                    adjusted_l3))

\* adjust_color_for_dark_background stepping down from 55 instead of up
AdjustColorForDarkBackgroundSteppingDown(palette, color_info) ==
    IF color_info.lightness >= Hundredths(MIN_LIGHTNESS_ON_DARK_BG) THEN palette
    ELSE SetLightness(palette, color_info.index,
                      1000 * (MIN_LIGHTNESS_ON_DARK_BG - color_info.index * 3))

\* adjust_color_for_dark_background
AdjustColorForDarkBackground(palette, color_info) ==
    IF color_info.lightness >= Hundredths(MIN_LIGHTNESS_ON_DARK_BG) THEN palette
    ELSE SetLightness(palette, color_info.index,
                      1000 * (MIN_LIGHTNESS_ON_DARK_BG + color_info.index * 3))

\* adjust_color_for_light_background
AdjustColorForLightBackground(palette, color_info) ==
    IF color_info.lightness <= Hundredths(MAX_LIGHTNESS_ON_LIGHT_BG) THEN palette
    ELSE SetLightness(palette, color_info.index,
                      1000 * Max2(ABSOLUTE_MIN_LIGHTNESS,
                                  MAX_LIGHTNESS_ON_LIGHT_BG - color_info.index * 2))

\* adjust_outlier_color acting on the outliers of either side in either theme
AdjustOutlierColorEitherSide(palette, outlier, sum_lightness, is_bright_theme) ==
    LET avg_l3 == RoundDiv(10 * sum_lightness, 7)
    IN  SetLightness(palette, outlier.index,
                     IF 7 * outlier.lightness < sum_lightness THEN avg_l3 - 10000
                     ELSE avg_l3 + 10000)

\* adjust_outlier_color; sum_lightness is the sum over indices 1..7, so that
\* avg_lightness = sum_lightness / 7.  The adjusted lightness avg -/+ 10 is
\* taken to the nearest 1/1000 percent.
AdjustOutlierColor(palette, outlier, sum_lightness, is_bright_theme) ==
    LET is_dark_outlier_in_bright ==
            /\ is_bright_theme
            /\ 7 * outlier.lightness < sum_lightness - 7 * Hundredths(OUTLIER_LIGHTNESS_THRESHOLD)
        is_bright_outlier_in_dark ==
            /\ ~is_bright_theme
            /\ 7 * outlier.lightness > sum_lightness + 7 * Hundredths(OUTLIER_LIGHTNESS_THRESHOLD)
        avg_l3 == RoundDiv(10 * sum_lightness, 7)
    IN  IF ~is_dark_outlier_in_bright /\ ~is_bright_outlier_in_dark THEN palette
        ELSE SetLightness(palette, outlier.index,
                          IF is_dark_outlier_in_bright THEN avg_l3 - 10000
                          ELSE avg_l3 + 10000)

\* the three adjustment loops of normalize_brightness; mode is "dark",
\* "light" or "outliers".  The iteration for ansi_colors[k] reads palette[k]
\* and writes palette[k] and, for k <= 6, its bright twin palette[k + 8]: no
\* iteration touches an entry of another, so the list the loop ends with has
\* at k and k + 8 what the iteration for k leaves there.
AdjustAll(pal_strs, ansi_colors, mode, sum_lightness, is_bright_theme) ==
    LET adjusted(c) ==
            IF mode = "dark" THEN AdjustColorForDarkBackground(pal_strs, c)
            ELSE IF mode = "light" THEN AdjustColorForLightBackground(pal_strs, c)
            ELSE IF Abs(7 * c.lightness - sum_lightness) >
                        7 * Hundredths(OUTLIER_LIGHTNESS_THRESHOLD)
            THEN AdjustOutlierColor(pal_strs, c, sum_lightness, is_bright_theme)
            ELSE pal_strs
    IN  [index \in PaletteIndices |->
            IF 1 <= index /\ index <= Len(ansi_colors)
            THEN adjusted(ansi_colors[index])[index]
            ELSE IF 1 <= index - 8 /\ index - 8 <= Len(ansi_colors)
            THEN adjusted(ansi_colors[index - 8])[index]
            ELSE pal_strs[index]]

\* normalize_brightness(palette): [returned, argument], the list it returns
\* and the caller's list as the call leaves it
NormalizeBrightness(palette) ==
    LET color_info(hex_color, index) ==
            LET info(hsl) == [index |-> index, lightness |-> hsl.l, hue |-> hsl.h,
                              saturation |-> hsl.s]
            IN  info(GetColorHsl(hex_color))
        \* the color8 and color15 adjustments of the moderate class
        color8(pal_strs, bg_lightness, color8_hsl) ==
            IF /\ bg_lightness < Hundredths(VERY_DARK_BACKGROUND_THRESHOLD)
               /\ color8_hsl.l < Hundredths(MIN_LIGHTNESS_ON_DARK_BG)
            THEN [pal_strs EXCEPT ![8] =
                     HslToHex(color8_hsl.h, 100 * color8_hsl.s,
                              10 * Min2(Hundredths(MIN_LIGHTNESS_ON_DARK_BG),
                                        bg_lightness + Hundredths(15)))]
            ELSE pal_strs
        color15(pal_strs, bg_lightness, color15_hsl) ==
            IF Abs(color15_hsl.l - bg_lightness) < Hundredths(MIN_FOREGROUND_CONTRAST)
            THEN [pal_strs EXCEPT ![15] =
                     HslToHex(color15_hsl.h, 100 * color15_hsl.s,
                              10 * (IF bg_lightness < Hundredths(VERY_DARK_BACKGROUND_THRESHOLD)
                                    THEN Min2(Hundredths(100),
                                              bg_lightness
                                              + Hundredths(MIN_FOREGROUND_CONTRAST + 10))
                                    ELSE Max2(0, bg_lightness
                                                 - Hundredths(MIN_FOREGROUND_CONTRAST + 10))))]
            ELSE pal_strs
        adjusted(pal_strs, bg_lightness, ansi_colors, sum_lightness) ==
            IF bg_lightness < Hundredths(VERY_DARK_BACKGROUND_THRESHOLD)
            THEN AdjustAll(pal_strs, ansi_colors, "dark", sum_lightness,
                           sum_lightness > 7 * Hundredths(BRIGHT_THEME_THRESHOLD))
            ELSE IF bg_lightness > Hundredths(VERY_LIGHT_BACKGROUND_THRESHOLD)
            THEN AdjustAll(pal_strs, ansi_colors, "light", sum_lightness,
                           sum_lightness > 7 * Hundredths(BRIGHT_THEME_THRESHOLD))
            ELSE color15(color8(AdjustAll(pal_strs, ansi_colors, "outliers", sum_lightness,
                                    sum_lightness > 7 * Hundredths(BRIGHT_THEME_THRESHOLD)),
                                bg_lightness, GetColorHsl(pal_strs[8])),
                         bg_lightness, GetColorHsl(pal_strs[15]))
        summed(pal_strs, bg_lightness, ansi_colors) ==
            adjusted(pal_strs, bg_lightness, ansi_colors,
                     ansi_colors[1].lightness + ansi_colors[2].lightness
                     + ansi_colors[3].lightness + ansi_colors[4].lightness
                     + ansi_colors[5].lightness + ansi_colors[6].lightness
                     + ansi_colors[7].lightness)
        analysed(pal_strs, bg_lightness) ==
            summed(pal_strs, bg_lightness,
                   [index \in 1 .. 7 |-> color_info(pal_strs[index], index)])
        background(pal_strs, bg_hsl) ==
            IF bg_hsl.l < Hundredths(MIN_BACKGROUND_LIGHTNESS_DARK)
            THEN [returned |-> analysed(pal_strs, Hundredths(MIN_BACKGROUND_LIGHTNESS_DARK)),
                  argument |-> [palette EXCEPT ![0] =
                                   HslToHex(bg_hsl.h, 100 * bg_hsl.s,
                                            1000 * MIN_BACKGROUND_LIGHTNESS_DARK)]]
            ELSE IF bg_hsl.l > Hundredths(MAX_BACKGROUND_LIGHTNESS_LIGHT)
            THEN [returned |-> analysed(pal_strs, Hundredths(MAX_BACKGROUND_LIGHTNESS_LIGHT)),
                  argument |-> [palette EXCEPT ![0] =
                                   HslToHex(bg_hsl.h, 100 * bg_hsl.s,
                                            1000 * MAX_BACKGROUND_LIGHTNESS_LIGHT)]]
            ELSE [returned |-> analysed(pal_strs, bg_hsl.l), argument |-> palette]
        strings(pal_strs) == background(pal_strs, GetColorHsl(pal_strs[0]))
    IN  strings([index \in PaletteIndices |->
                    IF palette[index] = NoColor THEN Black ELSE palette[index]])

----------------------------------------------------------------------------
(* core/imagemagick.py: palette cache and extract_colors_with_imagemagick    *)

\* load_cached_palette returning None; also the palette of a failed call
NoPalette == <<>>

\* A cache file is "missing", holds "text" that json.loads rejects (an
\* empty or cut-off file among them), or holds the "json" object of the
\* fields version and palette.
\* a cache file that does not exist
NoEntry == [content |-> "missing", version |-> 0, palette |-> NoPalette]

\* os.path.getmtime counts seconds as a float; the model counts ticks of
\* 1/TicksPerSecond second
TicksPerSecond == 2

\* get_cache_key: the digest of path, int(mtime) and mode, for the image at
\* hand (one digest per pair of whole second and mode)
GetCacheKey(modified, light_mode) == <<modified \div TicksPerSecond, light_mode>>

\* load_cached_palette accepting an entry of any version
LoadCachedPaletteAnyVersion(files, cache_key) ==
    LET data == files[cache_key]
    IN  IF /\ data.content = "json"
           /\ data.palette # NoPalette
           /\ Cardinality(DOMAIN data.palette) = ANSI_PALETTE_SIZE
        THEN data.palette
        ELSE NoPalette

\* load_cached_palette: None for a file that does not exist or that
\* json.loads rejects (the exception is caught); the stored palette of a
\* well-formed entry of the current version, else None
LoadCachedPalette(files, cache_key) ==
    LET data == files[cache_key]
    IN  IF data.content = "missing" THEN NoPalette
        ELSE IF data.content # "json" THEN NoPalette
        ELSE IF /\ data.version = CACHE_VERSION
                /\ data.palette # NoPalette
                /\ Cardinality(DOMAIN data.palette) = ANSI_PALETTE_SIZE
             THEN data.palette
             ELSE NoPalette

\* the file content json.dumps makes of a palette
CacheFile(palette) ==
    [content |-> "json", version |-> CACHE_VERSION, palette |-> palette]

\* save_palette_to_cache
SavePaletteToCache(files, cache_key, palette) ==
    [files EXCEPT ![cache_key] = CacheFile(palette)]

\* the strategy extract_colors_with_imagemagick selects for the samples
ChooseStrategy(samples) ==
    IF IsMonochromeImage(samples) THEN "monochrome"
    ELSE IF HasLowColorDiversity(samples) THEN "low_diversity"
    ELSE "chromatic"

\* the palette the selected strategy generates
GeneratePalette(kind, samples, light_mode) ==
    IF kind = "monochrome" THEN GenerateMonochromePalette(samples, light_mode)
    ELSE IF kind = "low_diversity" THEN GenerateSubtleBalancedPalette(samples, light_mode)
    ELSE GenerateChromaticPalette(samples, light_mode)

----------------------------------------------------------------------------
(* The palette pipeline as a state machine: one image, whose quantization    *)
(* yields `dominant`, is extracted repeatedly in either mode.                *)

\* grays from near black to near white, two of them faintly tinted
GraySamples ==
    << <<8, 8, 8>>, <<28, 28, 30>>, <<48, 48, 48>>, <<71, 71, 71>>, <<94, 92, 92>>,
       <<120, 120, 120>>, <<143, 145, 144>>, <<171, 171, 171>>, <<201, 201, 201>>, <<245, 245, 245>> >>

\* faintly tinted light grays of lightness close to 90
PaleSamples ==
    << <<229, 230, 228>>, <<228, 228, 230>>, <<229, 229, 229>>, <<230, 229, 229>>, <<230, 230, 229>>,
       <<229, 230, 230>>, <<230, 230, 230>>, <<230, 229, 230>>, <<229, 228, 229>>, <<231, 230, 230>> >>

\* a dark navy, a near white and saturated colours around the hue circle
VividSamples ==
    << <<16, 24, 40>>, <<208, 48, 48>>, <<48, 160, 64>>, <<208, 192, 48>>, <<48, 80, 208>>,
       <<176, 64, 192>>, <<48, 176, 192>>, <<232, 232, 224>>, <<224, 112, 32>>, <<112, 80, 48>> >>

\* blues of one hue family at close lightness
BlueSamples ==
    << <<48, 72, 120>>, <<56, 80, 136>>, <<64, 88, 144>>, <<72, 96, 152>>, <<80, 104, 160>>,
       <<88, 112, 168>>, <<96, 120, 176>>, <<104, 128, 184>>, <<112, 136, 192>>, <<120, 144, 200>> >>

\* seven neutral grays and three saturated primaries
MixedSamples ==
    << <<32, 32, 32>>, <<64, 64, 64>>, <<96, 96, 96>>, <<128, 128, 128>>, <<160, 160, 160>>,
       <<192, 192, 192>>, <<224, 224, 224>>, <<192, 48, 48>>, <<48, 192, 48>>, <<48, 48, 192>> >>

SamplePools == <<GraySamples, PaleSamples, VividSamples, BlueSamples, MixedSamples>>

\* how many of a pool's samples the quantizer may leave out
MaxDropped == 3

RECURSIVE Keep(_, _, _)
\* the samples of pool at the positions outside dropped, in order, from i on
Keep(pool, dropped, i) ==
    IF i > Len(pool) THEN <<>>
    ELSE (IF i \in dropped THEN <<>> ELSE <<pool[i]>>) \o Keep(pool, dropped, i + 1)

\* the sample lists the quantizer can yield
SampleLists ==
    UNION {{Keep(SamplePools[k], dropped, 1) :
                dropped \in {d \in SUBSET (1 .. Len(SamplePools[k])) :
                                Cardinality(d) <= MaxDropped}} :
           k \in 1 .. Len(SamplePools)}

\* the latest modification time of the image, in ticks
MaxMtime == 3

Mtimes == 0 .. MaxMtime

CacheKeys == {GetCacheKey(modified, lm) : modified \in Mtimes, lm \in BOOLEAN}

\* a cache file written by an earlier format of the program
OlderEntry == [content |-> "json", version |-> CACHE_VERSION - 1,
               palette |-> [i \in PaletteIndices |-> Black]]

\* a cache file of the current format whose palette is too short
ShortEntry == [content |-> "json", version |-> CACHE_VERSION,
               palette |-> [i \in 0 .. ANSI_PALETTE_SIZE - 2 |-> Black]]

\* a cache file that is empty or cut off
GarbledEntry == [content |-> "text", version |-> 0, palette |-> NoPalette]

\* a cache file an earlier run of the program has written
ValidEntry == CacheFile([i \in PaletteIndices |-> IF i = 0 THEN Black ELSE <<224, 224, 224>>])

\* the cache directories that hold one of entries for each mode of the image
\* as modified at the given time, and no other file
CachesAt(modified, entries) ==
    {[k \in CacheKeys |-> IF k[1] = modified \div TicksPerSecond THEN byMode[k[2]] ELSE NoEntry] :
        byMode \in [BOOLEAN -> entries]}

\* the callers that run extract_colors_with_imagemagick at the same time
NumCallers == 2

Callers == 1 .. NumCallers

\* the threads that run get_color_hsl at the same time
NumThreads == 2

Threads == 1 .. NumThreads

\* _hsl_cache = {}: the colours of the model it holds with their HSL, and
\* the number of other colours it holds
EmptyTable == [known |-> <<>>, others |-> 0]

ConvIdle ==
    /\ c_pc = "off"
    /\ c_in = Black
    /\ c_hsl = [h |-> 0, s |-> 0, l |-> 0]
    /\ c_out = Black

\* no scheme, as before any generator is constructed
NoScheme == ""

SchemeIdle ==
    /\ g_pc = "off"
    /\ g_seed = Black
    /\ g_tones = <<>>
    /\ g_raised = "none"
    /\ g_light_scheme = NoScheme
    /\ g_dark_scheme = NoScheme

PipelineIdle ==
    /\ dominant = <<>>
    /\ mtime = 0
    /\ light = FALSE
    /\ cache = [k \in CacheKeys |-> NoEntry]
    /\ outcome = "idle"
    /\ strategy = "none"
    /\ synth = NoPalette
    /\ result = NoPalette

\* no call of the variant engine yet
VariantIdle ==
    /\ v_pc = "off"
    /\ v_colors = <<>>
    /\ v_args = <<>>
    /\ v_out = <<>>

CallersIdle ==
    /\ caller_pc = [c \in Callers |-> "off"]
    /\ caller_palette = [c \in Callers |-> NoPalette]

MemoIdle ==
    /\ hsl_cache = EmptyTable
    /\ thread_pc = [t \in Threads |-> "off"]
    /\ thread_color = [t \in Threads |-> Black]
    /\ thread_hsl = [t \in Threads |-> [h |-> 0, s |-> 0, l |-> 0]]

\* what a parser hands back: a value (for normalize_color the empty string
\* stands for None), or the exception it raised
Returned(value) == [raised |-> "none", value |-> value]

Raised(exception) == [raised |-> exception, value |-> <<>>]

ParserIdle ==
    /\ p_pc = "off"
    /\ p_text = <<>>
    /\ p_out = Returned(<<>>)

\* the extractColors requests the user interface makes
MaxRequests == 2

Requests == 1 .. MaxRequests

BackendIdle ==
    /\ b_pc = [q \in Requests |-> "none"]
    /\ b_image = [q \in Requests |-> ""]
    /\ b_method = [q \in Requests |-> ""]
    /\ b_signals = [q \in Requests |-> <<>>]
    /\ extract_in_progress = {}

\* the parsers and the backend at rest
EdgeIdle == ParserIdle /\ BackendIdle

OutsideConvIdle == PipelineIdle /\ SchemeIdle /\ VariantIdle /\ CallersIdle /\ MemoIdle /\ EdgeIdle

OutsidePipelineIdle == ConvIdle /\ SchemeIdle /\ VariantIdle /\ CallersIdle /\ MemoIdle /\ EdgeIdle

OutsideSchemeIdle == ConvIdle /\ PipelineIdle /\ VariantIdle /\ CallersIdle /\ MemoIdle /\ EdgeIdle

OutsideVariantIdle == ConvIdle /\ PipelineIdle /\ SchemeIdle /\ CallersIdle /\ MemoIdle /\ EdgeIdle

OutsideMemoIdle == ConvIdle /\ PipelineIdle /\ SchemeIdle /\ VariantIdle /\ CallersIdle /\ EdgeIdle

OutsideParserIdle ==
    ConvIdle /\ PipelineIdle /\ SchemeIdle /\ VariantIdle /\ CallersIdle /\ MemoIdle /\ BackendIdle

OutsideBackendIdle ==
    ConvIdle /\ PipelineIdle /\ SchemeIdle /\ VariantIdle /\ CallersIdle /\ MemoIdle /\ ParserIdle

Init ==
    /\ OutsidePipelineIdle
    /\ dominant \in SampleLists
    /\ mtime = 0
    /\ light = FALSE
    /\ cache \in CachesAt(mtime, {NoEntry, OlderEntry})
    /\ outcome = "idle"
    /\ strategy = "none"
    /\ synth = NoPalette
    /\ result = NoPalette

\* extract_colors_with_imagemagick, served from the cache
ReturnCached(lm) ==
    /\ LoadCachedPalette(cache, GetCacheKey(mtime, lm)) # NoPalette
    /\ light' = lm
    /\ outcome' = "returned"
    /\ strategy' = "cached"
    /\ synth' = NoPalette
    /\ result' = LoadCachedPalette(cache, GetCacheKey(mtime, lm))
    /\ UNCHANGED <<dominant, mtime, cache>>
    /\ UNCHANGED outside_pipeline

\* extract_colors_with_imagemagick raising 'Not enough colors extracted'
RaiseNotEnoughColors(lm) ==
    /\ LoadCachedPalette(cache, GetCacheKey(mtime, lm)) = NoPalette
    /\ Len(dominant) < MIN_DOMINANT_COLORS
    /\ light' = lm
    /\ outcome' = "raised"
    /\ strategy' = "none"
    /\ synth' = NoPalette
    /\ result' = NoPalette
    /\ UNCHANGED <<dominant, mtime, cache>>
    /\ UNCHANGED outside_pipeline

\* extract_colors_with_imagemagick classifying, generating, normalizing,
\* saving and returning
ExtractColors(lm) ==
    LET returning(kind, palette, normalized) ==
            /\ strategy' = kind
            /\ synth' = palette
            /\ result' = normalized
            /\ cache' = SavePaletteToCache(cache, GetCacheKey(mtime, lm), normalized)
        generated(kind, palette) ==
            returning(kind, palette, NormalizeBrightness(palette).returned)
        classified(kind) == generated(kind, GeneratePalette(kind, dominant, lm))
    IN  /\ LoadCachedPalette(cache, GetCacheKey(mtime, lm)) = NoPalette
        /\ Len(dominant) >= MIN_DOMINANT_COLORS
        /\ classified(ChooseStrategy(dominant))
        /\ light' = lm
        /\ outcome' = "returned"
        /\ UNCHANGED <<dominant, mtime>>
        /\ UNCHANGED outside_pipeline

Next ==
    \E lm \in BOOLEAN :
        \/ ReturnCached(lm)
        \/ RaiseNotEnoughColors(lm)
        \/ ExtractColors(lm)

Spec == Init /\ [][Next]_vars

----------------------------------------------------------------------------
(* Properties of the palette pipeline *)

\* the lightness and the saturation of a palette entry, in 1/100 percent
LightnessOf(c) == GetColorHsl(c).l

SaturationOf(c) == GetColorHsl(c).s

\* the last call generated and normalized a palette (no cache hit)
Synthesized == outcome = "returned" /\ strategy # "cached"

\* C1: in every palette the pipeline returns for 8 or more samples, in either
\* mode, the lightness of index 0 (background) and of index 7 (foreground)
\* differ by at least 40.
C1_ForegroundContrast ==
    outcome = "returned" =>
        Abs(LightnessOf(result[0]) - LightnessOf(result[7])) >= Hundredths(40)

\* C2: the palette normalize_brightness returns has an index-0 lightness
\* inside [8, 92], whatever the lightness of the background it was given.
C2_BackgroundClamped ==
    Synthesized =>
        /\ LightnessOf(result[0]) >= Hundredths(8)
        /\ LightnessOf(result[0]) <= Hundredths(92)

\* C3: in the palette normalize_brightness returns, the lightness of index 15
\* differs from the lightness of the background (index 0) by at least 40, in
\* every ambient class.
C3_BrightWhiteContrast ==
    Synthesized =>
        Abs(LightnessOf(result[15]) - LightnessOf(result[0])) >= Hundredths(40)

\* C4: a call that finds no usable cached entry while the quantizer yields
\* fewer than 8 samples raises, returns no palette and leaves the cache as
\* it was.
C4_TooFewSamplesFail ==
    [][ (/\ Len(dominant) < 8
         /\ LoadCachedPalette(cache, GetCacheKey(mtime, light')) = NoPalette)
        => (/\ outcome' = "raised"
            /\ result' = NoPalette
            /\ cache' = cache) ]_vars

C4_Witness ==
    /\ outcome = "raised"
    /\ Len(dominant) = 7
    /\ result = NoPalette
    /\ \A k \in CacheKeys : LoadCachedPalette(cache, k) = NoPalette

\* a concrete colour: three channels, each in 0..255
IsConcreteColor(c) ==
    /\ DOMAIN c = 1 .. 3
    /\ \A i \in 1 .. 3 : c[i] \in 0 .. 255

\* C5: every palette a successful call returns has exactly 16 entries, each
\* a concrete colour, for each of the three strategies and both modes.
C5_SixteenConcrete ==
    outcome = "returned" =>
        /\ DOMAIN result = 0 .. 15
        /\ \A i \in DOMAIN result : IsConcreteColor(result[i])

C5_Witness ==
    /\ Synthesized
    /\ strategy = "chromatic"
    /\ light
    /\ result # synth
    /\ \A i \in 0 .. 15 : IsConcreteColor(result[i])

\* the positions of the samples of saturation below 15
LowSaturated == {i \in 1 .. Len(dominant) : SaturationOf(dominant[i]) < 1500}

\* the pairs of samples that both have saturation 15 or more
ChromaticPairs ==
    {pr \in (1 .. Len(dominant)) \X (1 .. Len(dominant)) :
        /\ pr[1] < pr[2]
        /\ pr[1] \notin LowSaturated
        /\ pr[2] \notin LowSaturated}

\* the distance of two hues around the circle, in 1/100 degree
HueGap(c1, c2) ==
    LET d == Abs(GetColorHsl(c1).h - GetColorHsl(c2).h)
    IN  Min2(d, 36000 - d)

\* the chromatic pairs of hue distance below 30 and lightness delta below 20
SimilarPairs ==
    {pr \in ChromaticPairs :
        /\ HueGap(dominant[pr[1]], dominant[pr[2]]) < 3000
        /\ Abs(LightnessOf(dominant[pr[1]]) - LightnessOf(dominant[pr[2]])) < 2000}

\* C6: for 8 or more samples the strategy is Monochrome iff more than 0.7 of
\* the samples have saturation below 15; otherwise LowDiversity iff there is
\* a chromatic pair and more than 0.6 of the chromatic pairs are similar;
\* otherwise Chromatic.
C6_ClassificationPriority ==
    Synthesized =>
        strategy =
            IF 10 * Cardinality(LowSaturated) > 7 * Len(dominant)
            THEN "monochrome"
            ELSE IF /\ ChromaticPairs # {}
                    /\ 10 * Cardinality(SimilarPairs) > 6 * Cardinality(ChromaticPairs)
            THEN "low_diversity"
            ELSE "chromatic"

\* the boundary: exactly 0.7 of the samples are low-saturated, not Monochrome
C6_Witness ==
    /\ Synthesized
    /\ 10 * Cardinality(LowSaturated) = 7 * Len(dominant)
    /\ strategy = "chromatic"

\* C7: when every sample is gray (saturation 0 to 5), the image is classified
\* Monochrome and indices 1 to 6 of the returned palette have saturation at
\* most 5.
C7_GrayStaysGray ==
    (/\ Synthesized
     /\ \A i \in 1 .. Len(dominant) : SaturationOf(dominant[i]) <= Hundredths(5))
    => /\ strategy = "monochrome"
       /\ \A i \in 1 .. 6 : SaturationOf(result[i]) <= Hundredths(5)

----------------------------------------------------------------------------
(* Conversion round trip: hsl_to_rgb(rgb_to_hsl(c)) *)

NumChannelValues == 7

ChannelStride == 37

ChannelValues == {(k * ChannelStride) % 256 : k \in 0 .. NumChannelValues - 1} \cup {255}

ConvInit ==
    /\ c_pc = "rgb"
    /\ c_in \in {RGBColor(r, g, b) : r \in ChannelValues, g \in ChannelValues, b \in ChannelValues}
    /\ c_hsl = [h |-> 0, s |-> 0, l |-> 0]
    /\ c_out = Black
    /\ OutsideConvIdle

ToHsl ==
    /\ c_pc = "rgb"
    /\ c_hsl' = RgbToHsl(c_in)
    /\ c_pc' = "hsl"
    /\ UNCHANGED <<c_in, c_out>>
    /\ UNCHANGED outside_conv

ToRgb ==
    /\ c_pc = "hsl"
    /\ c_out' = HslToRgb(c_hsl.h, c_hsl.s * 100, c_hsl.l * 10)
    /\ c_pc' = "back"
    /\ UNCHANGED <<c_in, c_hsl>>
    /\ UNCHANGED outside_conv

ConvNext == ToHsl \/ ToRgb

SpecConv == ConvInit /\ [][ConvNext]_vars

\* C8: hsl_to_rgb(rgb_to_hsl(c)) is within 1 of c in every channel, and every
\* channel of the result lies in 0..255.
C8_RoundTrip ==
    c_pc = "back" =>
        \A i \in 1 .. 3 : /\ Abs(c_out[i] - c_in[i]) <= 1
                          /\ c_out[i] \in 0 .. 255

C8_Witness == c_pc = "back" /\ c_hsl.s > 0 /\ c_hsl.h >= 18000 /\ c_out = c_in

----------------------------------------------------------------------------
(* integrations/kuntatinte_colors.py: tonal scales and the scheme generator  *)

\* TONES = list(range(0, 100)), the last tone left out
TonesWithoutLast == 0 .. 99

\* TONES = list(range(0, 101))
TONES == 0 .. 100

\* generate_tonal_palette: the seed's hue and saturation at lightness = tone
GenerateTonalPalette(base_color) ==
    LET hsl == HexToHsl(base_color)
    IN  [tone \in TONES |-> HslToHex(hsl.h, 100 * hsl.s, 1000 * tone)]

\* generate_neutral_palette; saturation_factor in hundredths (default 0.08)
GenerateNeutralPalette(base_color, saturation_factor_pct) ==
    LET hsl == HexToHsl(base_color)
    IN  [tone \in TONES |-> HslToHex(hsl.h, hsl.s * saturation_factor_pct, 1000 * tone)]

\* the saturation factors the module passes to generate_neutral_palette:
\* the default 0.08, and 0.05 and 0.12 for neutral and neutral variant
NeutralFactors == {8, 5, 12}

\* the names core/color_utils.py defines
ColorUtilsNames ==
    {"RGB", "HSL", "hex_to_rgb", "rgb_to_hex", "hex_to_rgba", "normalize_color",
     "rgb_to_hsl", "hex_to_hsl", "hsl_to_rgb", "hsl_to_hex", "get_luminance",
     "get_contrast_ratio", "get_best_contrast", "is_dark_color", "is_light_color",
     "calculate_hue_distance", "is_grayscale", "VARIANT_CONTENT",
     "VARIANT_EXPRESSIVE", "VARIANT_FIDELITY", "VARIANT_MONOCHROME",
     "VARIANT_NEUTRAL", "VARIANT_TONALSPOT", "VARIANT_VIBRANT", "VARIANT_RAINBOW",
     "VARIANT_FRUITSALAD", "VARIANT_NAMES", "adjust_color_saturation",
     "adjust_color_lightness", "shift_hue", "blend_colors",
     "apply_variant_to_color", "apply_variant_to_palette",
     "interpolate_palette_variants", "get_palette_at_slider_position",
     "get_variant_name_at_slider_position"}

\* "from core.color_utils import name" raises ImportError
ImportFromColorUtilsFails(name) == name \notin ColorUtilsNames

\* the seeds: every colour whose channels are among NumSeedLevels levels
NumSeedLevels == 4

SeedOffset == 54

SeedStride == 59

SeedLevels == {(SeedOffset + k * SeedStride) % 256 : k \in 0 .. NumSeedLevels - 1}

SchemeInit ==
    /\ OutsideSchemeIdle
    /\ g_pc = "seed"
    /\ g_seed \in {RGBColor(r, g, b) : r \in SeedLevels, g \in SeedLevels, b \in SeedLevels}
    /\ g_tones = <<>>
    /\ g_raised = "none"
    /\ g_light_scheme = NoScheme
    /\ g_dark_scheme = NoScheme

\* generate_tonal_palette(seed)
TonalPalette ==
    /\ g_pc = "seed"
    /\ g_tones' = GenerateTonalPalette(g_seed)
    /\ g_pc' = "tonal"
    /\ UNCHANGED <<g_seed, g_raised, g_light_scheme, g_dark_scheme>>
    /\ UNCHANGED outside_scheme

\* generate_neutral_palette(seed, factor)
NeutralPalette(saturation_factor_pct) ==
    /\ g_pc = "seed"
    /\ g_tones' = GenerateNeutralPalette(g_seed, saturation_factor_pct)
    /\ g_pc' = "neutral"
    /\ UNCHANGED <<g_seed, g_raised, g_light_scheme, g_dark_scheme>>
    /\ UNCHANGED outside_scheme

\* KuntatinteSchemeGenerator([seed]): __init__ calls _generate_palettes, whose
\* first statement imports is_material_you_available from core.color_utils;
\* the import raises before _light_scheme and _dark_scheme are assigned
Construct ==
    /\ g_pc = "seed"
    /\ ImportFromColorUtilsFails("is_material_you_available")
    /\ g_raised' = "ImportError"
    /\ g_pc' = "raised"
    /\ UNCHANGED <<g_seed, g_tones, g_light_scheme, g_dark_scheme>>
    /\ UNCHANGED outside_scheme

SchemeNext ==
    \/ TonalPalette
    \/ \E f \in NeutralFactors : NeutralPalette(f)
    \/ Construct

SpecScheme == SchemeInit /\ [][SchemeNext]_vars

\* a tonal scale has been built
ScaleBuilt == g_pc \in {"tonal", "neutral"}

\* C9 as stated: the scale has an entry for every tone t in 0..100, 101
\* entries in all, and the lightness of the colour at tone t equals t exactly.
C9_LightnessEqualsTone ==
    ScaleBuilt =>
        /\ DOMAIN g_tones = 0 .. 100
        /\ Cardinality(DOMAIN g_tones) = 101
        /\ \A t \in 0 .. 100 : LightnessOf(g_tones[t]) = Hundredths(t)

\* C9 amended: the scale has an entry for every tone t in 0..100, 101 entries
\* in all, and the lightness of the colour at tone t is within 0.2 of t, the
\* resolution of an 8-bit colour.
C9_LightnessNearTone ==
    ScaleBuilt =>
        /\ DOMAIN g_tones = 0 .. 100
        /\ Cardinality(DOMAIN g_tones) = 101
        /\ \A t \in 0 .. 100 : Abs(LightnessOf(g_tones[t]) - Hundredths(t)) <= 20

\* a tonal scale of a saturated seed with a tone whose colour is off the tone
\* by nearly the full 0.2
C9_Witness ==
    /\ g_pc = "tonal"
    /\ SaturationOf(g_seed) > 0
    /\ Cardinality(DOMAIN g_tones) = 101
    /\ \E t \in 1 .. 99 : Abs(LightnessOf(g_tones[t]) - Hundredths(t)) >= 18

\* C10: constructing the generator for a valid seed completes without raising
\* and yields both a light and a dark scheme.
C10_ConstructionTotal ==
    g_pc \notin {"seed", "tonal", "neutral"} =>
        /\ g_raised = "none"
        /\ g_light_scheme # NoScheme
        /\ g_dark_scheme # NoScheme

\* _generate_scheme, tonal branch: the surface roles as tones of the neutral scale
TonalSurfaceRoles(tones_neutral, is_dark) ==
    IF is_dark
    THEN [surface |-> tones_neutral[10], onSurface |-> tones_neutral[90]]
    ELSE [surface |-> tones_neutral[99], onSurface |-> tones_neutral[10]]

\* the call of the constructor has ended
ConstructorEnded == g_pc = "raised"

\* C11: the schemes generated from a seed take surface and onSurface from the
\* seed's neutral scale: dark surface is tone 10 and dark onSurface tone 90,
\* light surface is tone 99 and light onSurface tone 10.
C11_SurfaceRolesFromNeutralScale ==
    ConstructorEnded =>
        /\ g_dark_scheme # NoScheme
        /\ g_light_scheme # NoScheme
        /\ g_dark_scheme = TonalSurfaceRoles(GenerateNeutralPalette(g_seed, 5), TRUE)
        /\ g_light_scheme = TonalSurfaceRoles(GenerateNeutralPalette(g_seed, 5), FALSE)

----------------------------------------------------------------------------
(* core/color_utils.py: palette variants and the variant slider.  A slider   *)
(* value is counted in halves (u = 2 * slider_value), a blend ratio and an   *)
(* interpolation progress in segment_size-ths (ratio = n / segment_size).    *)

VARIANT_CONTENT == 0

VARIANT_EXPRESSIVE == 1

VARIANT_FIDELITY == 2

VARIANT_MONOCHROME == 3

VARIANT_NEUTRAL == 4

VARIANT_TONALSPOT == 5

VARIANT_VIBRANT == 6

VARIANT_RAINBOW == 7

VARIANT_FRUITSALAD == 8

\* VARIANT_NAMES in alphabetical order
VariantNamesSorted ==
    <<"Content", "Expressive", "Fidelity", "FruitSalad", "Monochrome", "Neutral",
      "Rainbow", "TonalSpot", "Vibrant">>

\* VARIANT_NAMES, indexed by variant + 1
VARIANT_NAMES ==
    <<"Content", "Expressive", "Fidelity", "Monochrome", "Neutral", "TonalSpot",
      "Vibrant", "Rainbow", "FruitSalad">>

\* segment_size = 100.0 / num_segments = 12.5, in halves
segment_size == 25

\* blend_colors leaving out the first colour: int((c2 - c1) * ratio)
BlendColorsDifferenceOnly(color1, color2, n) ==
    [i \in 1 .. 3 |-> ((color2[i] - color1[i]) * n) \div segment_size]

\* blend_colors(color1, color2, ratio), ratio = n / segment_size in [0, 1]:
\* int(c1 + (c2 - c1) * ratio) per channel
BlendColors(color1, color2, n) ==
    [i \in 1 .. 3 |->
        (color1[i] * segment_size + (color2[i] - color1[i]) * n) \div segment_size]

\* hue_steps of the FruitSalad variant (degrees)
hue_steps == <<0, 30, 60, 120, 180, 210, 270, 300>>

\* apply_variant_to_color with TonalSpot handled like Fidelity
ApplyVariantToColorNoIdentity(hex_color, variant, index, total) ==
    LET transformed(hsl) ==
            IF variant = VARIANT_MONOCHROME
            THEN HslToHex(hsl.h, 0, 10 * hsl.l)
            ELSE HslToHex(hsl.h, hsl.s * 90, 10 * hsl.l)
    IN  transformed(HexToHsl(hex_color))

\* apply_variant_to_color(hex_color, variant, index, total); the hue offset
\* of Rainbow, (index / total) * 360, is exact in 1/100 degree for the palette
\* lengths used here
ApplyVariantToColor(hex_color, variant, index, total) ==
    LET transformed(hsl) ==
            IF variant = VARIANT_MONOCHROME
            THEN HslToHex(hsl.h, 0, 10 * hsl.l)
            ELSE IF variant = VARIANT_NEUTRAL
            THEN HslToHex(hsl.h, hsl.s * 15, 10 * hsl.l)
            ELSE IF variant = VARIANT_CONTENT
            THEN HslToHex(hsl.h, hsl.s * 70, 10 * hsl.l)
            ELSE IF variant = VARIANT_FIDELITY
            THEN HslToHex(hsl.h, hsl.s * 90, 10 * hsl.l)
            ELSE IF variant = VARIANT_TONALSPOT
            THEN hex_color
            ELSE IF variant = VARIANT_VIBRANT
            THEN HslToHex(hsl.h, Min2(1000000, hsl.s * 140), 10 * hsl.l)
            ELSE IF variant = VARIANT_EXPRESSIVE
            THEN HslToHex((hsl.h + (2 * index - total) * 150) % Hundredths(360),
                          Min2(1000000, hsl.s * 130), 10 * hsl.l)
            ELSE IF variant = VARIANT_RAINBOW
            THEN HslToHex((hsl.h + (Hundredths(360) * index) \div total) % Hundredths(360),
                          100 * Max2(Hundredths(60), hsl.s), 10 * hsl.l)
            ELSE IF variant = VARIANT_FRUITSALAD
            THEN HslToHex((hsl.h + Hundredths(hue_steps[(index % Len(hue_steps)) + 1]))
                              % Hundredths(360),
                          Max2(700000, Min2(1000000, hsl.s * 120)), 10 * hsl.l)
            ELSE hex_color
    IN  transformed(HexToHsl(hex_color))

\* apply_variant_to_palette: index i of the source is position i + 1 here
ApplyVariantToPalette(colors, variant) ==
    [i \in 1 .. Len(colors) |-> ApplyVariantToColor(colors[i], variant, i - 1, Len(colors))]

\* interpolate_palette_variants(colors, from_variant, to_variant, progress),
\* progress = n / segment_size
InterpolatePaletteVariants(colors, from_variant, to_variant, n) ==
    LET blended(from_palette, to_palette) ==
            [i \in 1 .. Len(colors) |-> BlendColors(from_palette[i], to_palette[i], n)]
    IN  blended(ApplyVariantToPalette(colors, from_variant),
                ApplyVariantToPalette(colors, to_variant))

\* variant_sequence in the order of the variant indices
VariantSequenceByIndex ==
    <<VARIANT_CONTENT, VARIANT_EXPRESSIVE, VARIANT_FIDELITY, VARIANT_MONOCHROME,
      VARIANT_NEUTRAL, VARIANT_TONALSPOT, VARIANT_VIBRANT, VARIANT_RAINBOW,
      VARIANT_FRUITSALAD>>

\* variant_sequence of get_palette_at_slider_position and of
\* get_variant_name_at_slider_position
variant_sequence ==
    <<VARIANT_CONTENT, VARIANT_FIDELITY, VARIANT_NEUTRAL, VARIANT_MONOCHROME,
      VARIANT_TONALSPOT, VARIANT_VIBRANT, VARIANT_EXPRESSIVE, VARIANT_RAINBOW,
      VARIANT_FRUITSALAD>>

\* get_palette_at_slider_position(colors, u / 2)
GetPaletteAtSliderPosition(colors, u) ==
    LET num_segments == Len(variant_sequence) - 1
        segment(clamped, segment_index) ==
            InterpolatePaletteVariants(colors,
                                       variant_sequence[segment_index + 1],
                                       variant_sequence[segment_index + 2],
                                       clamped - segment_index * segment_size)
        located(clamped) ==
            segment(clamped,
                    IF clamped \div segment_size >= num_segments THEN num_segments - 1
                    ELSE clamped \div segment_size)
    IN  located(Max2(0, Min2(2 * 100, u)))

\* get_variant_name_at_slider_position with abs() in place of the lower clamp
GetVariantNameAtSliderPositionAbs(u) ==
    LET num_variants == Len(variant_sequence)
        named(closest_index) ==
            VARIANT_NAMES[variant_sequence[Min2(num_variants - 1, Abs(closest_index)) + 1] + 1]
    IN  named(IF u < 0 THEN - RoundDiv(- u, segment_size) ELSE RoundDiv(u, segment_size))

\* get_variant_name_at_slider_position(u / 2); round() is symmetric about 0
GetVariantNameAtSliderPosition(u) ==
    LET num_variants == Len(variant_sequence)
        named(closest_index) ==
            VARIANT_NAMES[variant_sequence[Max2(0, Min2(num_variants - 1, closest_index)) + 1] + 1]
    IN  named(IF u < 0 THEN - RoundDiv(- u, segment_size) ELSE RoundDiv(u, segment_size))

----------------------------------------------------------------------------
(* The variant engine as a state machine: one palette, one call *)

\* sixteen colours: vivid, pale, dark and gray ones
VariantPool ==
    << <<16, 24, 40>>, <<208, 48, 48>>, <<48, 160, 64>>, <<208, 192, 48>>,
       <<48, 80, 208>>, <<176, 64, 192>>, <<48, 176, 192>>, <<232, 232, 224>>,
       <<94, 92, 92>>, <<224, 112, 32>>, <<112, 80, 48>>, <<120, 144, 200>>,
       <<255, 255, 255>>, <<0, 0, 0>>, <<128, 128, 128>>, <<250, 20, 130>> >>

\* palette lengths: empty, one colour, and lengths that reach every entry of
\* hue_steps and wrap around it
VariantLengths == {0, 1, 4, 9, 16}

\* the palettes handed to the engine: leading and trailing parts of the pool
VariantPalettes ==
    {SubSeq(VariantPool, 1, n) : n \in VariantLengths} \cup
    {SubSeq(VariantPool, Len(VariantPool) - n + 1, Len(VariantPool)) : n \in VariantLengths}

Variants == 0 .. 8

\* slider positions in halves: the nine stops, positions inside segments,
\* and positions below 0 and above 100
SliderStops == {k * segment_size : k \in 0 .. 8}

SliderInside == {7, 38, 60, 113, 140, 190}

SliderOutside == {-80, -13, -12, -1, 201, 213, 260}

SliderValues == SliderStops \cup SliderInside \cup SliderOutside

\* interpolation progress, in segment_size-ths
ProgressValues == {0, 6, 12, 13, 19, segment_size}

VariantInit ==
    /\ OutsideVariantIdle
    /\ v_pc = "input"
    /\ v_colors \in VariantPalettes
    /\ v_args = <<>>
    /\ v_out = <<>>

\* apply_variant_to_palette(colors, variant)
ApplyVariant(variant) ==
    /\ v_pc = "input"
    /\ v_pc' = "apply_variant_to_palette"
    /\ v_args' = <<variant>>
    /\ v_out' = ApplyVariantToPalette(v_colors, variant)
    /\ UNCHANGED v_colors
    /\ UNCHANGED outside_variant

\* interpolate_palette_variants(colors, from_variant, to_variant, progress)
Interpolate(from_variant, to_variant, n) ==
    /\ v_pc = "input"
    /\ v_pc' = "interpolate_palette_variants"
    /\ v_args' = <<from_variant, to_variant, n>>
    /\ v_out' = InterpolatePaletteVariants(v_colors, from_variant, to_variant, n)
    /\ UNCHANGED v_colors
    /\ UNCHANGED outside_variant

\* get_palette_at_slider_position(colors, slider_value)
SliderPalette(u) ==
    /\ v_pc = "input"
    /\ v_pc' = "get_palette_at_slider_position"
    /\ v_args' = <<u>>
    /\ v_out' = GetPaletteAtSliderPosition(v_colors, u)
    /\ UNCHANGED v_colors
    /\ UNCHANGED outside_variant

\* get_variant_name_at_slider_position(slider_value)
SliderName(u) ==
    /\ v_pc = "input"
    /\ v_pc' = "get_variant_name_at_slider_position"
    /\ v_args' = <<u>>
    /\ v_out' = GetVariantNameAtSliderPosition(u)
    /\ UNCHANGED v_colors
    /\ UNCHANGED outside_variant

VariantNext ==
    \/ \E variant \in Variants : ApplyVariant(variant)
    \/ \E from_variant \in Variants, to_variant \in Variants, n \in ProgressValues :
            Interpolate(from_variant, to_variant, n)
    \/ \E u \in SliderValues : SliderPalette(u)
    \/ \E u \in SliderValues : SliderName(u)

SpecVariant == VariantInit /\ [][VariantNext]_vars

----------------------------------------------------------------------------
(* Properties of the variant engine *)

\* the traversal the slider is documented to make, stop by stop
StopVariants ==
    <<VARIANT_CONTENT, VARIANT_FIDELITY, VARIANT_NEUTRAL, VARIANT_MONOCHROME,
      VARIANT_TONALSPOT, VARIANT_VIBRANT, VARIANT_EXPRESSIVE, VARIANT_RAINBOW,
      VARIANT_FRUITSALAD>>

StopNames ==
    <<"Content", "Fidelity", "Neutral", "Monochrome", "TonalSpot", "Vibrant",
      "Expressive", "Rainbow", "FruitSalad">>

\* the last call asked for the palette, or for the name, at slider position u
PaletteAsked == v_pc = "get_palette_at_slider_position"

NameAsked == v_pc = "get_variant_name_at_slider_position"

\* the position of the last slider call, and the stop it is (if it is one)
SliderPosition == v_args[1]

AtStop == SliderPosition \in SliderStops

StopNumber == SliderPosition \div segment_size

C13_StopsInEnumerationOrder ==
    /\ (NameAsked /\ AtStop) => v_out = VARIANT_NAMES[StopNumber + 1]
    /\ (PaletteAsked /\ AtStop) => v_out = ApplyVariantToPalette(v_colors, StopNumber)

\* C13 amended: the k-th slider stop is the k-th variant of the slider's own
\* sequence Content, Fidelity, Neutral, Monochrome, TonalSpot, Vibrant,
\* Expressive, Rainbow, FruitSalad, whose indices are 0, 2, 4, 3, 5, 6, 1, 7, 8.
C13_StopsInSliderOrder ==
    (NameAsked /\ AtStop) =>
        /\ v_out = StopNames[StopNumber + 1]
        /\ v_out = VARIANT_NAMES[<<0, 2, 4, 3, 5, 6, 1, 7, 8>>[StopNumber + 1] + 1]

\* the first stop at which the two orders part
C13_Witness ==
    /\ NameAsked
    /\ SliderPosition = segment_size
    /\ v_out = "Fidelity"
    /\ v_out # VARIANT_NAMES[StopNumber + 1]

\* C14: a slider value below 0 gives the palette and the name of value 0, a
\* value above 100 the palette and the name of value 100.
C14_OutOfRangeClamped ==
    /\ (PaletteAsked /\ SliderPosition < 0)
            => v_out = GetPaletteAtSliderPosition(v_colors, 0)
    /\ (PaletteAsked /\ SliderPosition > 2 * 100)
            => v_out = GetPaletteAtSliderPosition(v_colors, 2 * 100)
    /\ (NameAsked /\ SliderPosition < 0)
            => v_out = GetVariantNameAtSliderPosition(0)
    /\ (NameAsked /\ SliderPosition > 2 * 100)
            => v_out = GetVariantNameAtSliderPosition(2 * 100)

C14_Witness ==
    /\ NameAsked
    /\ SliderPosition < - segment_size
    /\ v_out = "Content"

C16_TonalSpotIdentity ==
    (v_pc = "apply_variant_to_palette" /\ v_args[1] = VARIANT_TONALSPOT) =>
        v_out = v_colors

C16_Witness ==
    /\ v_pc = "apply_variant_to_palette"
    /\ v_args[1] = VARIANT_TONALSPOT
    /\ Len(v_colors) = 9
    /\ v_out = v_colors

----------------------------------------------------------------------------
(* The palette cache: what a lookup accepts *)

\* the files a cache directory can hold for a key
StoredEntries == {NoEntry, OlderEntry, ShortEntry, GarbledEntry, ValidEntry}

\* the samples of each pool, all of them and too few of them
CacheSampleLists ==
    {SubSeq(SamplePools[k], 1, n) :
        k \in 1 .. Len(SamplePools), n \in {MIN_DOMINANT_COLORS - 1, MIN_DOMINANT_COLORS}}

CacheInit ==
    /\ OutsidePipelineIdle
    /\ dominant \in CacheSampleLists
    /\ mtime = 0
    /\ light = FALSE
    /\ cache \in CachesAt(mtime, StoredEntries)
    /\ outcome = "idle"
    /\ strategy = "none"
    /\ synth = NoPalette
    /\ result = NoPalette

SpecCache == CacheInit /\ [][Next]_vars

\* the palette the pipeline computes from the samples, without any cache
Recomputed(samples, light_mode) ==
    NormalizeBrightness(GeneratePalette(ChooseStrategy(samples), samples, light_mode)).returned

----------------------------------------------------------------------------
(* The palette cache and a source image that is modified *)

\* the content of the image at its successive modifications: two lists of
\* 8 samples and one the quantizer cuts short
ModifySampleLists ==
    {SubSeq(VividSamples, 1, MIN_DOMINANT_COLORS),
     SubSeq(BlueSamples, 1, MIN_DOMINANT_COLORS),
     SubSeq(GraySamples, 1, MIN_DOMINANT_COLORS - 1)}

\* an image, a cache directory without files
ModifyInit ==
    /\ OutsidePipelineIdle
    /\ dominant \in ModifySampleLists
    /\ mtime = 0
    /\ light = FALSE
    /\ cache = [k \in CacheKeys |-> NoEntry]
    /\ outcome = "idle"
    /\ strategy = "none"
    /\ synth = NoPalette
    /\ result = NoPalette

\* the image file is rewritten with another content at a later time
Modify(samples, modified) ==
    /\ samples # dominant
    /\ modified > mtime
    /\ dominant' = samples
    /\ mtime' = modified
    /\ UNCHANGED <<light, cache, outcome, strategy, synth, result>>
    /\ UNCHANGED outside_pipeline

NextModify ==
    \/ Next
    \/ \E samples \in ModifySampleLists, modified \in Mtimes : Modify(samples, modified)

SpecModify == ModifyInit /\ [][NextModify]_vars

\* C18: every modification of the image changes its modification time (see
\* Modify), and the cache starts empty; so a palette that is not the one of
\* the current content can only come from an entry stored under an earlier
\* modification time.  The claim: a call that returns a palette returns the
\* one recomputed from the current content (which has the 8 samples a
\* recomputation needs).
C18_NeverStalePalette ==
    [][ (outcome' = "returned" /\ dominant' = dominant)
            => /\ Len(dominant) >= MIN_DOMINANT_COLORS
               /\ result' = Recomputed(dominant, light') ]_vars

----------------------------------------------------------------------------
(* Concurrent callers of extract_colors_with_imagemagick for one key *)

\* the key all callers compute: same image, modification time and mode
SharedKey == GetCacheKey(mtime, light)

\* the image, the mode and the cache directory the callers start with: no
\* usable entry (with one, every caller returns it and none writes)
CallersInit ==
    /\ ConvIdle /\ SchemeIdle /\ VariantIdle /\ MemoIdle /\ EdgeIdle
    /\ dominant \in ModifySampleLists
    /\ mtime = 0
    /\ light \in BOOLEAN
    /\ cache \in CachesAt(mtime, {NoEntry, OlderEntry, GarbledEntry})
    /\ outcome = "idle"
    /\ strategy = "none"
    /\ synth = NoPalette
    /\ result = NoPalette
    /\ caller_pc = [c \in Callers |-> "start"]
    /\ caller_palette = [c \in Callers |-> NoPalette]

\* what a caller does not touch, the cache files apart
CallerLeaves == <<dominant, mtime, light, outside_callers>>

\* load_cached_palette returning whatever palette a file that exists holds
LookupAnyFile(c) ==
    /\ caller_pc[c] = "start"
    /\ IF cache[SharedKey].content # "missing"
       THEN /\ caller_palette' = [caller_palette EXCEPT ![c] = cache[SharedKey].palette]
            /\ caller_pc' = [caller_pc EXCEPT ![c] = "done"]
       ELSE /\ caller_pc' = [caller_pc EXCEPT ![c] = "generate"]
            /\ UNCHANGED caller_palette
    /\ UNCHANGED <<cache, CallerLeaves>>

\* cache_key = get_cache_key(...); cached = load_cached_palette(cache_key);
\* if cached: return cached
Lookup(c) ==
    LET found(cached) ==
            IF cached # NoPalette
            THEN /\ caller_palette' = [caller_palette EXCEPT ![c] = cached]
                 /\ caller_pc' = [caller_pc EXCEPT ![c] = "done"]
            ELSE /\ caller_pc' = [caller_pc EXCEPT ![c] = "generate"]
                 /\ UNCHANGED caller_palette
    IN  /\ caller_pc[c] = "start"
        /\ found(LoadCachedPalette(cache, SharedKey))
        /\ UNCHANGED <<cache, CallerLeaves>>

\* extract_dominant_colors, the test of len(dominant), the generator and
\* normalize_brightness: the caller raises or holds its palette
Generate(c) ==
    /\ caller_pc[c] = "generate"
    /\ IF Len(dominant) < MIN_DOMINANT_COLORS
       THEN /\ caller_pc' = [caller_pc EXCEPT ![c] = "raised"]
            /\ UNCHANGED caller_palette
       ELSE /\ caller_palette' = [caller_palette EXCEPT ![c] = Recomputed(dominant, light)]
            /\ caller_pc' = [caller_pc EXCEPT ![c] = "open"]
    /\ UNCHANGED <<cache, CallerLeaves>>

\* save_palette_to_cache, write_text_to_file: open(path, 'w') leaves an
\* empty file
OpenForWriting(c) ==
    /\ caller_pc[c] = "open"
    /\ cache' = [cache EXCEPT ![SharedKey] = GarbledEntry]
    /\ caller_pc' = [caller_pc EXCEPT ![c] = "write"]
    /\ UNCHANGED <<caller_palette, CallerLeaves>>

\* write_text_to_file: f.write(text) and the close put the whole text at
\* the start of the file; then return palette
WriteAndReturn(c) ==
    /\ caller_pc[c] = "write"
    /\ cache' = SavePaletteToCache(cache, SharedKey, caller_palette[c])
    /\ caller_pc' = [caller_pc EXCEPT ![c] = "done"]
    /\ UNCHANGED <<caller_palette, CallerLeaves>>

CallersNext ==
    \E c \in Callers :
        \/ Lookup(c)
        \/ Generate(c)
        \/ OpenForWriting(c)
        \/ WriteAndReturn(c)

SpecCallers == CallersInit /\ [][CallersNext]_vars

----------------------------------------------------------------------------
(* Threads in get_color_hsl over the module-level table _hsl_cache *)

\* _HSL_CACHE_MAX_SIZE
HSL_CACHE_MAX_SIZE == 1000

\* len(_hsl_cache)
TableLen(table) == Cardinality(DOMAIN table.known) + table.others

\* the colours the threads ask for
ThreadColors == {VividSamples[2], VividSamples[3]}

\* the tables earlier calls leave behind: any of the threads' colours with
\* their HSL, and up to HSL_CACHE_MAX_SIZE colours in all
TablesLeft ==
    {table \in {[known |-> [c \in held |-> HexToHsl(c)], others |-> n] :
                    held \in SUBSET ThreadColors,
                    n \in {0, HSL_CACHE_MAX_SIZE - 2, HSL_CACHE_MAX_SIZE - 1,
                           HSL_CACHE_MAX_SIZE}} :
        TableLen(table) <= HSL_CACHE_MAX_SIZE}

MemoInit ==
    /\ OutsideMemoIdle
    /\ hsl_cache \in TablesLeft
    /\ thread_pc = [t \in Threads |-> "call"]
    /\ thread_color \in [Threads -> ThreadColors]
    /\ thread_hsl = [t \in Threads |-> [h |-> 0, s |-> 0, l |-> 0]]

\* if hex_color in _hsl_cache:
Contains(t) ==
    /\ thread_pc[t] = "call"
    /\ thread_pc' = [thread_pc EXCEPT ![t] =
            IF thread_color[t] \in DOMAIN hsl_cache.known THEN "subscript" ELSE "len"]
    /\ UNCHANGED <<hsl_cache, thread_color, thread_hsl>>
    /\ UNCHANGED outside_memo

\* return _hsl_cache[hex_color]: the stored value, or KeyError
Subscript(t) ==
    /\ thread_pc[t] = "subscript"
    /\ IF thread_color[t] \in DOMAIN hsl_cache.known
       THEN /\ thread_hsl' = [thread_hsl EXCEPT ![t] = hsl_cache.known[thread_color[t]]]
            /\ thread_pc' = [thread_pc EXCEPT ![t] = "returned"]
       ELSE /\ thread_pc' = [thread_pc EXCEPT ![t] = "KeyError"]
            /\ UNCHANGED thread_hsl
    /\ UNCHANGED <<hsl_cache, thread_color>>
    /\ UNCHANGED outside_memo

\* if len(_hsl_cache) >= _HSL_CACHE_MAX_SIZE:
CheckSize(t) ==
    /\ thread_pc[t] = "len"
    /\ thread_pc' = [thread_pc EXCEPT ![t] =
            IF TableLen(hsl_cache) >= HSL_CACHE_MAX_SIZE THEN "clear" ELSE "insert"]
    /\ UNCHANGED <<hsl_cache, thread_color, thread_hsl>>
    /\ UNCHANGED outside_memo

\* recent_keys = list(_hsl_cache.keys())[...]; _hsl_cache.clear()
ClearTable(t) ==
    /\ thread_pc[t] = "clear"
    /\ hsl_cache' = EmptyTable
    /\ thread_pc' = [thread_pc EXCEPT ![t] = "insert"]
    /\ UNCHANGED <<thread_color, thread_hsl>>
    /\ UNCHANGED outside_memo

\* hsl = hex_to_hsl(hex_color); _hsl_cache[hex_color] = hsl; return hsl
Insert(t) ==
    LET store(hex_color, hsl) ==
            /\ hsl_cache' = [hsl_cache EXCEPT !.known =
                    [c \in DOMAIN hsl_cache.known \cup {hex_color} |->
                        IF c = hex_color THEN hsl ELSE hsl_cache.known[c]]]
            /\ thread_hsl' = [thread_hsl EXCEPT ![t] = hsl]
    IN  /\ thread_pc[t] = "insert"
        /\ store(thread_color[t], HexToHsl(thread_color[t]))
        /\ thread_pc' = [thread_pc EXCEPT ![t] = "returned"]
        /\ UNCHANGED thread_color
        /\ UNCHANGED outside_memo

MemoNext ==
    \E t \in Threads :
        \/ Contains(t)
        \/ Subscript(t)
        \/ CheckSize(t)
        \/ ClearTable(t)
        \/ Insert(t)

SpecMemo == MemoInit /\ [][MemoNext]_vars

\* C20: under every interleaving of the threads' lookups, insertions and
\* clears, no call of get_color_hsl fails and every call that has returned
\* has returned the HSL of the colour it was asked for.
C20_MemoTableSafe ==
    \A t \in Threads :
        /\ thread_pc[t] # "KeyError"
        /\ thread_pc[t] = "returned" => thread_hsl[t] = HexToHsl(thread_color[t])

----------------------------------------------------------------------------
(* core/color_utils.py: hex_to_rgb and normalize_color on strings *)
(* A string is the sequence of its characters.                              *)

HexDigits == <<"0", "1", "2", "3", "4", "5", "6", "7", "8", "9",
               "a", "b", "c", "d", "e", "f">>

UpperHexDigits == <<"A", "B", "C", "D", "E", "F">>

IsHexDigit(ch) ==
    \/ \E i \in DOMAIN HexDigits : HexDigits[i] = ch
    \/ \E i \in DOMAIN UpperHexDigits : UpperHexDigits[i] = ch

\* str.lower on one character
Lower(ch) ==
    IF \E i \in DOMAIN UpperHexDigits : UpperHexDigits[i] = ch
    THEN HexDigits[10 + CHOOSE i \in DOMAIN UpperHexDigits : UpperHexDigits[i] = ch]
    ELSE ch

\* the value of a hexadecimal digit
HexDigitValue(ch) == (CHOOSE i \in DOMAIN HexDigits : HexDigits[i] = Lower(ch)) - 1

RECURSIVE LStrip(_, _)
\* str.lstrip(chars)
LStrip(text, chars) ==
    IF text # <<>> /\ Head(text) \in chars THEN LStrip(Tail(text), chars) ELSE text

RECURSIVE RStrip(_, _)
\* str.rstrip(chars)
RStrip(text, chars) ==
    IF text # <<>> /\ text[Len(text)] \in chars
    THEN RStrip(SubSeq(text, 1, Len(text) - 1), chars)
    ELSE text

\* str.strip(): white space is the blank in the strings of the model
Strip(text) == RStrip(LStrip(text, {" "}), {" "})

RECURSIVE HexValue(_)
\* the number a string of hexadecimal digits denotes
HexValue(digits) ==
    IF digits = <<>> THEN 0
    ELSE 16 * HexValue(SubSeq(digits, 1, Len(digits) - 1)) + HexDigitValue(digits[Len(digits)])

\* int(text, 16): white space around the number is skipped, a sign is read,
\* then one hexadecimal digit at least (the strings of the model have no
\* "0x" and no "_")
IntBase16(text) ==
    LET signed(t) ==
            LET negative == t # <<>> /\ Head(t) = "-"
                digits == IF t # <<>> /\ Head(t) \in {"+", "-"} THEN Tail(t) ELSE t
            IN  IF digits # <<>> /\ \A i \in DOMAIN digits : IsHexDigit(digits[i])
                THEN Returned(IF negative THEN - HexValue(digits) ELSE HexValue(digits))
                ELSE Raised("ValueError")
    IN  signed(Strip(text))

\* hex_to_rgb
HexToRgb(hex_color) ==
    LET parsed(s) ==
            IF Len(s) # 6 THEN Raised("ValueError")
            ELSE LET channel == [k \in 1 .. 3 |-> IntBase16(SubSeq(s, 2 * k - 1, 2 * k))]
                 IN  IF \E k \in 1 .. 3 : channel[k].raised # "none"
                     THEN Raised("ValueError")
                     ELSE Returned(<<channel[1].value, channel[2].value, channel[3].value>>)
    IN  parsed(LStrip(hex_color, {"#"}))

\* normalize_color: re.match(r"#?([0-9A-Fa-f]{6})", s) on the stripped
\* string looks at its start only
NormalizeColor(color) ==
    LET matched(s) ==
            LET digits == IF s # <<>> /\ Head(s) = "#" THEN Tail(s) ELSE s
            IN  IF Len(digits) >= 6 /\ \A i \in 1 .. 6 : IsHexDigit(digits[i])
                THEN Returned(<<"#">> \o [i \in 1 .. 6 |-> Lower(digits[i])])
                ELSE Returned(<<>>)
    IN  IF color = <<>> THEN Returned(<<>>) ELSE matched(Strip(color))

\* the strings handed to the parsers: a head, three pairs of characters,
\* a tail
TextHeads == {<<>>, <<"#">>, <<"#", "#">>, <<" ", "#">>}

TextPairs == {<<"f", "f">>, <<"0", "A">>, <<"-", "1">>, <<"+", "f">>, <<"g", "0">>, <<" ", "7">>}

TextTails == {<<>>, <<"d">>, <<"d", "d">>, <<" ">>}

ParserTexts ==
    {head \o first \o second \o third \o tail :
        head \in TextHeads, first \in TextPairs, second \in TextPairs,
        third \in TextPairs, tail \in TextTails}
    \cup {head \o first \o second \o <<"7">> : head \in TextHeads, first \in TextPairs,
            second \in TextPairs}

ParserInit ==
    /\ OutsideParserIdle
    /\ p_pc = "input"
    /\ p_text \in ParserTexts
    /\ p_out = Returned(<<>>)

CallHexToRgb ==
    /\ p_pc = "input"
    /\ p_pc' = "hex_to_rgb"
    /\ p_out' = HexToRgb(p_text)
    /\ UNCHANGED p_text
    /\ UNCHANGED outside_parser

CallNormalizeColor ==
    /\ p_pc = "input"
    /\ p_pc' = "normalize_color"
    /\ p_out' = NormalizeColor(p_text)
    /\ UNCHANGED p_text
    /\ UNCHANGED outside_parser

ParserNext == CallHexToRgb \/ CallNormalizeColor

SpecParser == ParserInit /\ [][ParserNext]_vars

\* exactly six hexadecimal digits with an optional leading '#'
WellFormedHex(text) ==
    LET digits == IF text # <<>> /\ Head(text) = "#" THEN Tail(text) ELSE text
    IN  Len(digits) = 6 /\ \A i \in 1 .. 6 : IsHexDigit(digits[i])

\* C21: on a string that is not six hexadecimal digits with an optional
\* leading '#', hex_to_rgb raises and normalize_color returns None; and
\* whatever hex_to_rgb returns has its three channels in 0..255.
C21_MalformedHexRejected ==
    /\ (p_pc = "hex_to_rgb" /\ ~WellFormedHex(p_text)) => p_out.raised = "ValueError"
    /\ (p_pc = "hex_to_rgb" /\ p_out.raised = "none")
            => \A k \in 1 .. 3 : p_out.value[k] \in 0 .. 255
    /\ (p_pc = "normalize_color" /\ ~WellFormedHex(p_text)) => p_out.value = <<>>

----------------------------------------------------------------------------
(* Properties of normalize_brightness, on the palettes the pipeline hands   *)
(* to it (synth) and gets back from it (result)                              *)

\* the lightness normalize_brightness reads for the background: the
\* lightness of index 0, taken into [8, 92]
BgLightness ==
    Clamp(Hundredths(MIN_BACKGROUND_LIGHTNESS_DARK),
          Hundredths(MAX_BACKGROUND_LIGHTNESS_LIGHT), LightnessOf(synth[0]))

VeryDark == Synthesized /\ BgLightness < Hundredths(VERY_DARK_BACKGROUND_THRESHOLD)

VeryLight == Synthesized /\ BgLightness > Hundredths(VERY_LIGHT_BACKGROUND_THRESHOLD)

Moderate == Synthesized /\ ~VeryDark /\ ~VeryLight

\* C22: in the palette normalize_brightness returns, every index 1..7 has a
\* lightness of at least 55 when the background lightness is below 20, and
\* of at most 45 when the background lightness is above 80.
C22_AnsiColorsReadable ==
    /\ VeryDark => \A i \in 1 .. 7 :
                       LightnessOf(result[i]) >= Hundredths(MIN_LIGHTNESS_ON_DARK_BG)
    /\ VeryLight => \A i \in 1 .. 7 :
                        LightnessOf(result[i]) <= Hundredths(MAX_LIGHTNESS_ON_LIGHT_BG)

\* a very dark background with an entry below 55 that was raised
C22_Witness ==
    /\ VeryDark
    /\ \E i \in 1 .. 7 :
           /\ LightnessOf(synth[i]) < Hundredths(MIN_LIGHTNESS_ON_DARK_BG)
           /\ LightnessOf(result[i]) >= Hundredths(MIN_LIGHTNESS_ON_DARK_BG)

\* a very light background with an entry above 45 that was lowered
C22_WitnessLight ==
    /\ VeryLight
    /\ \E i \in 1 .. 7 :
           /\ LightnessOf(synth[i]) > Hundredths(MAX_LIGHTNESS_ON_LIGHT_BG)
           /\ LightnessOf(result[i]) <= Hundredths(MAX_LIGHTNESS_ON_LIGHT_BG)

\* the lightness the code computes for a corrected index 8
Color8Target == Min2(Hundredths(MIN_LIGHTNESS_ON_DARK_BG), BgLightness + Hundredths(15))

\* C23: whenever the background is very dark (lightness below 20) and index 8
\* has a lightness below 55, the palette normalize_brightness returns has
\* index 8 at lightness min(55, background + 15), to the 0.2 an 8-bit colour
\* resolves, on every path through the function.
C23_BrightBlackCorrected ==
    (VeryDark /\ LightnessOf(synth[8]) < Hundredths(MIN_LIGHTNESS_ON_DARK_BG))
        => Abs(LightnessOf(result[8]) - Color8Target) <= 20

----------------------------------------------------------------------------
(* The pipeline on images of moderate lightness, whose palettes reach the    *)
(* outlier adjustment of normalize_brightness                                *)

\* a dusk of plum and pinks: a bright-leaning palette with one dark entry
RoseSamples ==
    << <<107, 46, 82>>, <<201, 130, 172>>, <<194, 112, 167>>, <<107, 46, 87>>,
       <<194, 112, 167>>, <<233, 165, 210>>, <<214, 92, 184>>, <<204, 102, 178>> >>

\* dark greens, purples and two light accents: a dark-leaning palette with bright entries
ForestSamples ==
    << <<38, 89, 89>>, <<83, 102, 26>>, <<163, 41, 102>>, <<133, 224, 178>>,
       <<38, 13, 115>>, <<56, 90, 22>>, <<244, 221, 154>>, <<76, 15, 138>> >>

\* light and mid greens with one dark olive
MeadowSamples ==
    << <<162, 204, 102>>, <<194, 209, 148>>, <<204, 229, 153>>, <<69, 96, 32>>,
       <<210, 233, 165>>, <<136, 178, 76>>, <<153, 204, 51>>, <<149, 191, 64>> >>

\* light blues with two deep teals
SkySamples ==
    << <<148, 189, 209>>, <<159, 202, 223>>, <<31, 99, 122>>, <<140, 198, 217>>,
       <<26, 76, 102>>, <<112, 175, 219>>, <<165, 216, 233>>, <<112, 175, 219>> >>

\* earth tones between lightness 25 and 70
EmberSamples ==
    << <<219, 112, 112>>, <<224, 178, 133>>, <<89, 51, 38>>, <<38, 115, 13>>,
       <<178, 76, 128>>, <<122, 31, 76>>, <<107, 138, 15>>, <<38, 77, 89>> >>

\* greens of one hue family, light and dark
LeafSamples ==
    << <<159, 223, 170>>, <<51, 153, 51>>, <<46, 107, 56>>, <<140, 217, 140>>,
       <<159, 223, 159>>, <<41, 163, 41>>, <<41, 163, 41>>, <<38, 115, 45>> >>

\* violets from deep to light: outliers on both sides of the mean
VioletSamples ==
    << <<180, 112, 194>>, <<217, 153, 229>>, <<178, 102, 204>>, <<81, 38, 89>>,
       <<170, 76, 178>>, <<71, 34, 79>>, <<210, 153, 229>>, <<129, 61, 143>> >>

\* dull, dark and pale samples next to one vivid green: every term of the
\* matching score decides a slot
MossSamples ==
    << <<135, 146, 136>>, <<97, 105, 107>>, <<24, 65, 16>>, <<112, 99, 92>>,
       <<34, 21, 40>>, <<215, 224, 234>>, <<43, 41, 39>>, <<20, 184, 48>> >>

ModeratePools ==
    <<RoseSamples, ForestSamples, MeadowSamples, SkySamples, EmberSamples, LeafSamples,
      VioletSamples>>

\* the moderate images, the mossy one, the gray, pale, vivid and blue ones,
\* and an image with too few samples
NormalizeSampleLists ==
    {ModeratePools[k] : k \in 1 .. Len(ModeratePools)}
    \cup {MossSamples}
    \cup {SubSeq(SamplePools[k], 1, MIN_DOMINANT_COLORS) : k \in 1 .. 4}
    \cup {SubSeq(RoseSamples, 1, MIN_DOMINANT_COLORS - 1)}

NormalizeInit ==
    /\ OutsidePipelineIdle
    /\ dominant \in NormalizeSampleLists
    /\ mtime = 0
    /\ light = FALSE
    /\ cache \in CachesAt(mtime, {NoEntry, OlderEntry})
    /\ outcome = "idle"
    /\ strategy = "none"
    /\ synth = NoPalette
    /\ result = NoPalette

SpecNormalize == NormalizeInit /\ [][Next]_vars

----------------------------------------------------------------------------
(* Properties of the outlier adjustment and of the bright twins           *)

\* seven times avg_lightness, the mean lightness of indices 1..7 as given
SumLightness ==
    LightnessOf(synth[1]) + LightnessOf(synth[2]) + LightnessOf(synth[3])
    + LightnessOf(synth[4]) + LightnessOf(synth[5]) + LightnessOf(synth[6])
    + LightnessOf(synth[7])

\* is_bright_theme
BrightTheme == SumLightness > 7 * Hundredths(BRIGHT_THEME_THRESHOLD)

\* index i is in the list outliers
IsOutlier(i) ==
    Abs(7 * LightnessOf(synth[i]) - SumLightness) > 7 * Hundredths(OUTLIER_LIGHTNESS_THRESHOLD)

\* index i is an outlier adjust_outlier_color acts on: a dark one of a bright
\* theme or a bright one of a dark theme
IsAdjustedOutlier(i) ==
    \/ /\ BrightTheme
       /\ 7 * LightnessOf(synth[i]) < SumLightness - 7 * Hundredths(OUTLIER_LIGHTNESS_THRESHOLD)
    \/ /\ ~BrightTheme
       /\ 7 * LightnessOf(synth[i]) > SumLightness + 7 * Hundredths(OUTLIER_LIGHTNESS_THRESHOLD)

\* C24 as stated: in the moderate class every index 1..7 whose lightness is
\* more than 25 away from the mean lightness of indices 1..7 is returned 10
\* units nearer to the mean (to the 0.2 an 8-bit colour resolves), and every
\* index within 25 of the mean is returned unchanged.
C24_OutliersMovedTen ==
    Moderate =>
        \A i \in 1 .. 7 :
            IF IsOutlier(i)
            THEN Abs(LightnessOf(result[i])
                     - (IF 7 * LightnessOf(synth[i]) < SumLightness
                        THEN LightnessOf(synth[i]) + Hundredths(10)
                        ELSE LightnessOf(synth[i]) - Hundredths(10))) <= 20
            ELSE result[i] = synth[i]

\* C24 amended: in the moderate class an index 1..7 more than 25 below the
\* mean of a bright-leaning palette (mean above 50) is returned at mean - 10,
\* one more than 25 above the mean of a dark-leaning palette at mean + 10 (to
\* the 0.2 an 8-bit colour resolves), and every other index 1..7 is
\* returned unchanged.
C24_OutliersSetTenFromMean ==
    Moderate =>
        \A i \in 1 .. 7 :
            IF IsAdjustedOutlier(i)
            THEN Abs(7 * LightnessOf(result[i])
                     - (IF BrightTheme THEN SumLightness - 7 * Hundredths(10)
                        ELSE SumLightness + 7 * Hundredths(10))) <= 7 * 20
            ELSE result[i] = synth[i]

\* a moderate background with an outlier that was adjusted
C24_Witness ==
    /\ Moderate
    /\ \E i \in 1 .. 7 : IsAdjustedOutlier(i) /\ result[i] # synth[i]

\* a moderate background with an outlier that was left alone
C24_WitnessKept ==
    /\ Moderate
    /\ \E i \in 1 .. 7 : IsOutlier(i) /\ ~IsAdjustedOutlier(i) /\ result[i] = synth[i]

\* the change normalize_brightness made to the lightness of index i
LightnessDelta(i) == LightnessOf(result[i]) - LightnessOf(synth[i])

\* C25: whenever normalize_brightness changes the lightness of a base colour
\* at index i in 1..6, the bright counterpart at index i + 8 of the returned
\* palette has its lightness changed by the same amount (to within one unit,
\* which covers the rounding of the four 8-bit colours involved), whichever
\* strategy made the palette.
C25_BrightTwinSameDelta ==
    Synthesized =>
        \A i \in 1 .. 6 :
            LightnessDelta(i) # 0
                => Abs(LightnessDelta(i + 8) - LightnessDelta(i)) <= Hundredths(1)

\* the same for the palettes of the chromatic strategy alone
ChromaticTwinSameDelta ==
    (Synthesized /\ strategy = "chromatic") =>
        \A i \in 1 .. 6 :
            LightnessDelta(i) # 0
                => Abs(LightnessDelta(i + 8) - LightnessDelta(i)) <= Hundredths(1)

----------------------------------------------------------------------------
(* Properties of the chromatic synthesis *)

\* the last call synthesized a chromatic palette
Chromatic == Synthesized /\ strategy = "chromatic"

\* the sample positions generate_chromatic_palette takes for the background,
\* the foreground and the six hues, in this order
ChromaticPositions ==
    LET hues(background, foreground) ==
            <<background.index, foreground.index>>
            \o GreedyMatches(dominant, {background.index, foreground.index}, 1)
        fronted(background) ==
            hues(background,
                 FindForegroundColor(dominant, light, {background.index},
                                     GetColorHsl(background.color).l))
    IN  fronted(FindBackgroundColor(dominant, light))

\* red, green, yellow, blue, magenta, cyan in degrees
StatedHues == <<0, 120, 60, 240, 300, 180>>

\* the score of the sample at position p for hue number i, in 1/100:
\* 3 * hue distance + 50 if saturation < 15 + 10 if lightness < 20 or > 85
StatedScore(p, i) ==
    LET hsl == GetColorHsl(dominant[p])
        away == Abs(hsl.h - 100 * StatedHues[i])
    IN  3 * Min2(away, 36000 - away)
        + (IF hsl.s < 1500 THEN 5000 ELSE 0)
        + (IF hsl.l < 2000 \/ hsl.l > 8500 THEN 1000 ELSE 0)

\* the unused position of the lowest score for hue number i, the earliest
\* of them if several share it
StatedMatch(used, i) ==
    CHOOSE p \in (1 .. Len(dominant)) \ used :
        \A q \in (1 .. Len(dominant)) \ used :
            \/ StatedScore(p, i) < StatedScore(q, i)
            \/ StatedScore(p, i) = StatedScore(q, i) /\ p <= q

RECURSIVE StatedAssignment(_, _)
\* the positions of the hues from number i on, each taken out of use for
\* the hues after it
StatedAssignment(used, i) ==
    IF i > Len(StatedHues) THEN <<>>
    ELSE <<StatedMatch(used, i)>>
         \o StatedAssignment(used \cup {StatedMatch(used, i)}, i + 1)

\* the stated assignment after the background and the foreground are taken
StatedPositions ==
    StatedAssignment({ChromaticPositions[1], ChromaticPositions[2]}, 1)

\* C26: chromatic synthesis fills indices 1..6 for the hues red, green,
\* yellow, blue, magenta, cyan in this order, each with the not yet used
\* sample of the lowest score 3 * hue distance + 50 if saturation < 15 + 10
\* if lightness < 20 or > 85, the earliest sample among equal scores.
C26_GreedyHueAssignment ==
    Chromatic =>
        \A i \in 1 .. 6 :
            /\ ChromaticPositions[i + 2] = StatedPositions[i]
            /\ synth[i] = dominant[StatedPositions[i]]

\* a chromatic palette for which two unused samples shared the lowest score
\* of a hue and the earlier was taken
C26_Witness ==
    /\ Chromatic
    /\ \E i \in 1 .. 6 :
           \E q \in (1 .. Len(dominant))
                    \ {ChromaticPositions[k] : k \in 1 .. i + 2} :
               /\ StatedScore(q, i) = StatedScore(StatedPositions[i], i)
               /\ synth[i] = dominant[StatedPositions[i]]
               /\ StatedPositions[i] < q

\* C27: in chromatic synthesis on 8 or more samples the background, the
\* foreground and the six hue slots come from eight pairwise distinct
\* sample positions.
C27_EightDistinctPositions ==
    Chromatic =>
        /\ Len(ChromaticPositions) = 8
        /\ Cardinality({ChromaticPositions[k] : k \in 1 .. 8}) = 8
        /\ \A k \in 1 .. 8 : ChromaticPositions[k] \in 1 .. Len(dominant)
        /\ \A i \in 1 .. 6 : synth[i] = dominant[ChromaticPositions[i + 2]]

\* a chromatic palette of more than 8 samples, so that positions are left over
C27_Witness ==
    /\ Chromatic
    /\ Len(dominant) > 8
    /\ Cardinality({ChromaticPositions[k] : k \in 1 .. 8}) = 8

----------------------------------------------------------------------------
(* Properties of the per-colour variant rules *)

\* the last call was apply_variant_to_palette with this variant
VariantApplied(variant) == v_pc = "apply_variant_to_palette" /\ v_args[1] = variant

\* the hue of the colour a variant returns for position k (index k - 1):
\* shifted by the hue table for FruitSalad, kept by the saturation variants
VariantHue(variant, k) ==
    IF variant = VARIANT_FRUITSALAD
    THEN (HexToHsl(v_colors[k]).h + Hundredths(hue_steps[((k - 1) % Len(hue_steps)) + 1]))
             % Hundredths(360)
    ELSE HexToHsl(v_colors[k]).h

\* position k of the output is the 8-bit colour of the hue of the variant,
\* the saturation s4 (in 1/10000 percent) and the lightness of the input
HasSaturation(variant, k, s4) ==
    v_out[k] = HslToHex(VariantHue(variant, k), s4, 10 * HexToHsl(v_colors[k]).l)

\* the saturation rules that are the same as stated and as amended
ScalingRules ==
    /\ VariantApplied(VARIANT_MONOCHROME) =>
           \A k \in 1 .. Len(v_colors) : HasSaturation(VARIANT_MONOCHROME, k, 0)
    /\ VariantApplied(VARIANT_NEUTRAL) =>
           \A k \in 1 .. Len(v_colors) :
               HasSaturation(VARIANT_NEUTRAL, k, 15 * SaturationOf(v_colors[k]))
    /\ VariantApplied(VARIANT_CONTENT) =>
           \A k \in 1 .. Len(v_colors) :
               HasSaturation(VARIANT_CONTENT, k, 70 * SaturationOf(v_colors[k]))
    /\ VariantApplied(VARIANT_FIDELITY) =>
           \A k \in 1 .. Len(v_colors) :
               HasSaturation(VARIANT_FIDELITY, k, 90 * SaturationOf(v_colors[k]))
    /\ VariantApplied(VARIANT_VIBRANT) =>
           \A k \in 1 .. Len(v_colors) :
               HasSaturation(VARIANT_VIBRANT, k,
                             Min2(100 * Hundredths(100), 140 * SaturationOf(v_colors[k])))

\* C28 as stated: each variant returns the colour of the stated saturation
\* at the lightness of the input: Monochrome 0, Neutral 0.15 s, Content
\* 0.7 s, Fidelity 0.9 s, Vibrant min(100, 1.4 s), and FruitSalad s itself
\* when s is between 70 and 100 and 70 otherwise.
C28_SaturationAsStated ==
    /\ ScalingRules
    /\ VariantApplied(VARIANT_FRUITSALAD) =>
           \A k \in 1 .. Len(v_colors) :
               HasSaturation(VARIANT_FRUITSALAD, k,
                             IF /\ SaturationOf(v_colors[k]) >= Hundredths(70)
                                /\ SaturationOf(v_colors[k]) <= Hundredths(100)
                             THEN 100 * SaturationOf(v_colors[k])
                             ELSE 100 * Hundredths(70))

\* C28 amended: as stated for Monochrome, Neutral, Content, Fidelity and
\* Vibrant; FruitSalad returns the saturation max(70, min(100, 1.2 s)).
C28_SaturationRules ==
    /\ ScalingRules
    /\ VariantApplied(VARIANT_FRUITSALAD) =>
           \A k \in 1 .. Len(v_colors) :
               HasSaturation(VARIANT_FRUITSALAD, k,
                             Max2(100 * Hundredths(70),
                                  Min2(100 * Hundredths(100),
                                       120 * SaturationOf(v_colors[k]))))

\* FruitSalad applied to sixteen colours, one of them of a saturation between
\* 70 and 100 that comes back more saturated
C28_Witness ==
    /\ VariantApplied(VARIANT_FRUITSALAD)
    /\ Len(v_colors) = 16
    /\ \E k \in 1 .. Len(v_colors) :
           /\ SaturationOf(v_colors[k]) >= Hundredths(70)
           /\ SaturationOf(v_colors[k]) < Hundredths(80)
           /\ SaturationOf(v_out[k]) > SaturationOf(v_colors[k]) + Hundredths(10)

----------------------------------------------------------------------------
(* core/backend.py: PaletteBackend.extractColors.  Every request starts a    *)
(* daemon thread running _extract; the threads run side by side.             *)

\* the images the user interface asks about
Images == {"a.png", "b.png"}

\* the extraction methods; any name but the last two is served by ImageMagick
Methods == {"ImageMagick", "Pywal", "KDE Material You"}

BackendInit == OutsideBackendIdle /\ BackendIdle

\* the request number of the next extractColors call (0: none left)
NextRequest ==
    IF \E q \in Requests : b_pc[q] = "none"
    THEN CHOOSE q \in Requests :
             b_pc[q] = "none" /\ \A r \in Requests : b_pc[r] = "none" => q <= r
    ELSE 0

\* the worker of request q is between thread.start() and the end of _extract
Running(q) == b_pc[q] = "running"

\* extractColors(image_path, method, mode): defines _extract and starts the
\* thread; _extract_in_progress is neither read nor written
extractColors(image_path, method) ==
    /\ NextRequest # 0
    /\ b_pc' = [b_pc EXCEPT ![NextRequest] = "running"]
    /\ b_image' = [b_image EXCEPT ![NextRequest] = image_path]
    /\ b_method' = [b_method EXCEPT ![NextRequest] = method]
    /\ UNCHANGED <<b_signals, extract_in_progress>>
    /\ UNCHANGED outside_backend

\* _extract with the extraction yielding colours: they are normalized and
\* colorsExtracted is emitted
ExtractReturns(q) ==
    /\ Running(q)
    /\ b_pc' = [b_pc EXCEPT ![q] = "done"]
    /\ b_signals' = [b_signals EXCEPT ![q] = Append(@, "colorsExtracted")]
    /\ UNCHANGED <<b_image, b_method, extract_in_progress>>
    /\ UNCHANGED outside_backend

\* _extract with the extraction failing.  extract_colors_from_wallpaper
\* raises and the except branch emits extractionError; _extract_colors_pywal
\* and _extract_colors_kde_material_you emit extractionError themselves and
\* return [], which _extract goes on to emit with colorsExtracted
ExtractFails(q) ==
    /\ Running(q)
    /\ b_pc' = [b_pc EXCEPT ![q] = "done"]
    /\ b_signals' = [b_signals EXCEPT ![q] =
                        IF b_method[q] \in {"Pywal", "KDE Material You"}
                        THEN Append(Append(@, "extractionError"), "colorsExtracted")
                        ELSE Append(@, "extractionError")]
    /\ UNCHANGED <<b_image, b_method, extract_in_progress>>
    /\ UNCHANGED outside_backend

BackendNext ==
    \/ \E image_path \in Images, method \in Methods : extractColors(image_path, method)
    \/ \E q \in Requests : ExtractReturns(q)
    \/ \E q \in Requests : ExtractFails(q)

SpecBackend == BackendInit /\ [][BackendNext]_vars

\* C29: every extractColors request ends with exactly one result signal,
\* colorsExtracted or extractionError, never both and never neither,
\* whichever method is used and whether the extraction succeeds or fails.
C29_ExactlyOneResultSignal ==
    \A q \in Requests : b_pc[q] = "done" => Len(b_signals[q]) = 1

\* C30: while an extraction of an image is running, a further request for the
\* same image does not start a second worker: at most one extraction per
\* image runs at any time.
C30_OneExtractionPerImage ==
    \A q \in Requests, r \in Requests :
        (q # r /\ Running(q) /\ Running(r)) => b_image[q] # b_image[r]

====
